---- MODULE Spec2Model ----
(***************************************************************************)
(* LambdaWatch: the log buffer (internal/buffer), the Loki transport       *)
(* (internal/loki), the telemetry receiver (internal/telemetryapi) and the *)
(* lifecycle manager (internal/extension), as state machines.              *)
(*                                                                         *)
(*   SpecBuf   the Buffer alone, driven by arbitrary calls                 *)
(*   SpecPush  one Client.Push / Client.PushCritical call                  *)
(*   Spec      the Manager: event loop, flush loop, telemetry handlers     *)
(*   SpecOverlap  the Manager with overlapping telemetry requests          *)
(*   FairSpec  the Manager under fair scheduling                           *)
(*   SpecCrit  one Manager.criticalFlush call on a filled buffer           *)
(*   SpecShutdown  Spec, with and without the logger writing to the buffer *)
(*   SpecRecv  the telemetry receiver alone, request after request         *)
(*   SpecSplit the receiver handling one long function or extension line   *)
(*   SpecBatch Batch.ToPushRequest on batches of up to MaxBatchLen entries *)
(*   FairCrit  SpecCrit, the call running to its end                       *)
(*   SpecFailure  SpecOverlap on a buffer of three, logger in or out       *)
(*   SpecFlush Spec with and without a byte limit, logger in or out        *)
(*   SpecDone  the receiver on requests of platform.runtimeDone events     *)
(*   FairTick  the Manager without shutdown, its ticker firing for ever    *)
(*   FairLoop  the Manager with the flush loop scheduled fairly            *)
(*   SpecOrder the three consumers of the buffer, removal and push apart   *)
(*   SpecInterval  setState and the flush loop's interval, by statement    *)
(*   SpecAll   the Manager with overlapping requests and shutdown          *)
(***************************************************************************)
EXTENDS Integers, Sequences, FiniteSets, TLC

VARIABLES
  buffer,      \* the Buffer struct: entries, maxSize, byteSize, ready, closed
  nextId,      \* history: identity given to the next accepted entry
  dropped,     \* history: identities discarded by overflow
  returned,    \* history: identities returned by Flush/FlushBySize/Drain, in call order
  last,        \* history: the last Buffer call, the buffer before it, its result
  px,          \* one Client.push call: its arguments, loop position, attempts, result
  cfg,             \* config.Config: the fields the Manager reads; logBuffer: the
                   \* logger was given the buffer (logger.SetBuffer)
  state,           \* Manager.state
  intervalChange,  \* Manager.intervalChange: edges pending in the one-slot channel
  stopFlush,       \* Manager.stopFlush is closed
  criticalFlushMu, \* Manager.criticalFlushMu: Free or the task holding it
  invocationDone,  \* Manager.invocationDone: NilChan or a channel
  chans,           \* channels made so far, and the closed ones among them
  ctxDone,         \* the context of main is cancelled
  ev,              \* the event loop task
  fl,              \* the flush loop task
  hs,              \* the telemetry handler tasks, one per HTTP request
  host,            \* the host: invocations dispatched, requests posted, receiver state
  sink,            \* history: per callback, what became of the entries it found
  srv              \* telemetryapi.Server: its fields, and history of the last request

bufVars == <<buffer, nextId, dropped, returned, last>>

mgrVars == <<cfg, state, intervalChange, stopFlush, criticalFlushMu, invocationDone,
             chans, ctxDone, ev, fl, hs, host, sink, srv>>

\* what the calls of SpecBuf leave alone, and what the steps of SpecPush leave alone
notBuf == <<px, mgrVars>>
notPush == <<bufVars, mgrVars>>

vars == <<bufVars, px, mgrVars>>

(***************************************************************************)
(* Bounds of the model.                                                    *)
(***************************************************************************)
\* identities handed out; entries accepted later are untracked (id 0)
MaxIds == 4
\* largest capacity a buffer of SpecBuf is constructed with
MaxCap == 2
\* longest slice handed to AddBatch
MaxBatchLen == 2
\* largest value of cfg.MaxRetries / cfg.CriticalFlushRetries
MaxRetry == 2
\* INVOKE events the host dispatches
MaxInvokes == 2
\* telemetry requests the host posts
MaxRequests == 2

\* the longest marshalled push request, in bytes
MaxBodyLen == 2

\* events in one telemetry request of SpecRecv
MaxEvents == 2

\* the length of the longest message of SpecSplit
MaxMsgLen == 301

\* message lengths of the entries offered to the buffer
MsgLens == {0, 3}
\* len("function"), the Type of the entries offered
TypeLen == 8
\* arguments of Flush / FlushBySize
FlushCounts == 0..(MaxCap + 1)
ByteCaps == {0, 11, 22, 35}

Min(a, b) == IF a < b THEN a ELSE b

RECURSIVE SumSizes(_)

(***************************************************************************)
(* internal/buffer: LogEntry and Buffer.  An entry is its byte lengths     *)
(* (Message, Type, RequestID) and a history identity id.                   *)
(***************************************************************************)
LogEntry(id, msg, typ, rid) ==
  [id |-> id, Message |-> msg, Type |-> typ, RequestID |-> rid, w |-> {}]

Size(e) == e.Message + e.Type + e.RequestID + 8

SumSizes(s) == IF s = <<>> THEN 0 ELSE Size(Head(s)) + SumSizes(Tail(s))

New(maxSize) ==
  [entries |-> <<>>, maxSize |-> maxSize, byteSize |-> 0, ready |-> 0, closed |-> FALSE]

\* Append1 forgetting to subtract the size of the entry it drops
Append1NoSub(b, entry) ==
  LET kept == IF Len(b.entries) >= b.maxSize THEN Tail(b.entries) ELSE b.entries
  IN [b EXCEPT !.entries = Append(kept, entry), !.byteSize = b.byteSize + Size(entry)]

\* Append1 rejecting the new entry at capacity instead of dropping the oldest
Append1DropNew(b, entry) ==
  IF Len(b.entries) >= b.maxSize
    THEN b
    ELSE [b EXCEPT !.entries = Append(b.entries, entry), !.byteSize = b.byteSize + Size(entry)]

\* the body shared by Add and the loop of AddBatch: drop the oldest at capacity, append
Append1(b, entry) ==
  LET atCap == Len(b.entries) >= b.maxSize
      kept  == IF atCap THEN Tail(b.entries) ELSE b.entries
      bytes == IF atCap THEN b.byteSize - Size(Head(b.entries)) ELSE b.byteSize
  IN [b EXCEPT !.entries = Append(kept, entry), !.byteSize = bytes + Size(entry)]

Add(b, entry) ==
  IF b.closed
    THEN [b |-> b, ret |-> FALSE]
    ELSE LET nb == Append1(b, entry)
         IN [b |-> nb, ret |-> Len(nb.entries) >= nb.maxSize]

RECURSIVE AddLoop(_, _)
AddLoop(b, es) == IF es = <<>> THEN b ELSE AddLoop(Append1(b, Head(es)), Tail(es))

\* a ready channel that queues every edge
SignalReadyQueued(b) == [b EXCEPT !.ready = @ + 1]

\* the non-blocking send on the channel of capacity one
SignalReady(b) == [b EXCEPT !.ready = 1]

AddBatch(b, es) == IF b.closed THEN b ELSE SignalReady(AddLoop(b, es))

\* Flush returning the batch without removing it from the buffer
FlushNoRemove(b, batchSize) ==
  [b |-> b, ret |-> SubSeq(b.entries, 1, Min(batchSize, Len(b.entries)))]

Flush(b, batchSize) ==
  IF Len(b.entries) = 0
    THEN [b |-> b, ret |-> <<>>]
    ELSE LET count == IF batchSize > Len(b.entries) THEN Len(b.entries) ELSE batchSize
             batch == SubSeq(b.entries, 1, count)
         IN [b |-> [b EXCEPT !.entries = SubSeq(b.entries, count + 1, Len(b.entries)),
                             !.byteSize = b.byteSize - SumSizes(batch)],
             ret |-> batch]

\* the scan of FlushBySize from index i (1-based) with count entries and bytes taken
RECURSIVE SizeScan(_, _, _, _, _, _)
SizeScan(es, batchSize, maxBytes, i, count, bytes) ==
  IF i > Len(es) \/ count >= batchSize
    THEN [count |-> count, bytes |-> bytes]
    ELSE IF bytes + Size(es[i]) > maxBytes /\ count > 0
      THEN [count |-> count, bytes |-> bytes]
      ELSE SizeScan(es, batchSize, maxBytes, i + 1, count + 1, bytes + Size(es[i]))

\* FlushBySize looking at the count only
FlushBySizeCountOnly(b, batchSize, maxBytes) == Flush(b, batchSize)

FlushBySize(b, batchSize, maxBytes) ==
  IF Len(b.entries) = 0
    THEN [b |-> b, ret |-> <<>>]
    ELSE LET sc == SizeScan(b.entries, batchSize, maxBytes, 1, 0, 0)
         IN IF sc.count = 0
              THEN [b |-> b, ret |-> <<>>]
              ELSE [b |-> [b EXCEPT !.entries = SubSeq(b.entries, sc.count + 1, Len(b.entries)),
                                    !.byteSize = b.byteSize - sc.bytes],
                    ret |-> SubSeq(b.entries, 1, sc.count)]

\* Drain emptying the buffer without closing it
DrainNoClose(b) ==
  [b |-> [b EXCEPT !.entries = <<>>, !.byteSize = 0], ret |-> b.entries]

Drain(b) ==
  [b |-> [b EXCEPT !.closed = TRUE, !.entries = <<>>, !.byteSize = 0], ret |-> b.entries]

BufLen(b) == Len(b.entries)

ByteSize(b) == b.byteSize

\* receive from Ready(): takes the pending edge
ReadyRecv(b) == [b EXCEPT !.ready = 0]

(***************************************************************************)
(* internal/loki: Client.push, pushWithRetry, doPush.  A response of the   *)
(* sink is NetErr (the round trip failed) or an HTTP status.               *)
(***************************************************************************)
\* httpClient.Do returned an error: there is no status
NetErr == 0

Responses == {NetErr, 200, 301, 404, 429, 500}

Bundles == {"nil", "nostreams", "emptyvalues", "entries"}

\* doPush treating every non-2xx status as retryable
ClassifyRetryAll(r) ==
  IF r = NetErr THEN "retry"
  ELSE IF r >= 200 /\ r < 300 THEN "ok"
  ELSE "retry"

\* the outcome of one doPush: nil, a retryableError, or a plain error
Classify(r) ==
  IF r = NetErr THEN "retry"
  ELSE IF r >= 200 /\ r < 300 THEN "ok"
  ELSE IF r = 429 \/ r >= 500 THEN "retry"
  ELSE "terminal"

\* retries := c.maxRetries; if isCritical { retries = c.criticalRetries }
Retries(p) == IF p.isCritical THEN p.criticalRetries ELSE p.maxRetries

RECURSIVE Pow2(_)
Pow2(n) == IF n = 0 THEN 1 ELSE 2 * Pow2(n - 1)

\* time.Duration(math.Pow(2, attempt-1)) * 100ms, in milliseconds
Backoff(attempt) == Pow2(attempt - 1) * 100

\* the bytes json.Marshal can produce for a request, and the values of
\* cfg.CompressionThreshold
Bytes == {1, 2}

JsonBodies == UNION {[1..n -> Bytes] : n \in 1..MaxBodyLen}

Thresholds == {0, 1}

\* gzip.Writer: the magic number, the data (in stored blocks), the length trailer
GzipMagic == <<31, 139>>

Gzip(data) == GzipMagic \o data \o <<Len(data)>>

\* bytes.NewReader(b), or a bytes.Buffer holding b: the data and the read offset
NewReader(b) == [data |-> b, off |-> 0]

\* what is left to read from a reader
Unread(rd) == SubSeq(rd.data, rd.off + 1, Len(rd.data))

\* io.ReadAll(rd): everything unread, leaving the reader at its end
ReadAll(rd) == [bytes |-> Unread(rd), rd |-> [rd EXCEPT !.off = Len(rd.data)]]

\* Client.push: the body and its Content-Encoding for the marshalled request
Encode(p) ==
  IF p.enableGzip /\ Len(p.jsonBody) > p.compressionThreshold
    THEN [body |-> NewReader(Gzip(p.jsonBody)), contentEncoding |-> "gzip"]
    ELSE [body |-> NewReader(p.jsonBody), contentEncoding |-> ""]

\* one reader made before the loop and handed to every attempt
AttemptBodyShared(p) == IF p.attempt = 0 THEN NewReader(p.bodyBytes) ELSE p.reader

\* the body handed to doPush by one attempt: bytes.NewReader(bodyBytes)
AttemptBody(p) == NewReader(p.bodyBytes)

\* an emptiness test that looks for nil only
IsEmptyRequestNilOnly(bundle) == bundle = "nil"

\* req == nil || len(req.Streams) == 0
IsEmptyRequest(bundle) == bundle \in {"nil", "nostreams"}

PxIdle ==
  [pc |-> "idle", bundle |-> "nil", isCritical |-> FALSE, maxRetries |-> 0,
   criticalRetries |-> 0, attempt |-> 0, responses |-> <<>>, waited |-> 0,
   ctxDone |-> FALSE, result |-> [kind |-> "none", n |-> 0],
   jsonBody |-> <<>>, enableGzip |-> FALSE, compressionThreshold |-> 0,
   contentEncoding |-> "", bodyBytes |-> <<>>, reader |-> NewReader(<<>>),
   sent |-> <<>>, read |-> <<>>]

PushInit ==
  \E b \in Bundles, c \in BOOLEAN, mr \in 0..MaxRetry, cr \in 0..MaxRetry,
     j \in JsonBodies, gz \in BOOLEAN, th \in Thresholds :
    px = [PxIdle EXCEPT !.pc = "call", !.bundle = b, !.isCritical = c,
                        !.maxRetries = mr, !.criticalRetries = cr,
                        !.jsonBody = IF b \in {"nil", "nostreams"} THEN <<>> ELSE j,
                        !.enableGzip = gz, !.compressionThreshold = th]

\* Client.push up to the first attempt: an empty request returns nil at once
PushCall ==
  /\ px.pc = "call"
  /\ px' = IF IsEmptyRequest(px.bundle)
             THEN [px EXCEPT !.pc = "done", !.result = [kind |-> "ok", n |-> 0]]
             ELSE LET e == Encode(px)
                      r == ReadAll(e.body)
                  IN [px EXCEPT !.pc = "send", !.attempt = 0,
                                !.contentEncoding = e.contentEncoding,
                                !.bodyBytes = r.bytes, !.reader = r.rd]
  /\ UNCHANGED notPush

\* one doPush and the rest of the loop body: return, or go to the next attempt.
\* The transport reads some or all of the body it was handed (sent records what
\* the body held) whatever the response.
DoPush ==
  /\ px.pc = "send"
  /\ \E r \in (IF px.ctxDone THEN {NetErr} ELSE Responses),
        n \in {0, 1, Len(Unread(AttemptBody(px)))} :
       LET c == Classify(r)
           body == AttemptBody(px)
           p == [px EXCEPT !.responses = Append(@, r),
                           !.sent = Append(@, Unread(body)),
                           !.read = Append(@, Min(Len(Unread(body)), n)),
                           !.reader = [body EXCEPT !.off = Min(Len(body.data), @ + n)]]
       IN px' = CASE c = "ok" -> [p EXCEPT !.pc = "done", !.result = [kind |-> "ok", n |-> 0]]
                  [] c = "terminal" -> [p EXCEPT !.pc = "done", !.result = [kind |-> "status", n |-> r]]
                  [] OTHER ->
                       IF px.attempt + 1 <= Retries(px)
                         THEN [p EXCEPT !.pc = "backoff", !.attempt = @ + 1]
                         ELSE [p EXCEPT !.pc = "done",
                                        !.result = [kind |-> "exhausted", n |-> Retries(px)]]
  /\ UNCHANGED notPush

\* a select that waits the backoff out whatever the context
TimerFiresAlways(p) == TRUE

\* the select takes <-time.After(backoff): the timer, set on entry for 100 ms or
\* more, fires before the context is done; a context done on entry or during the
\* wait takes the other case
TimerFires(p) == ~p.ctxDone

\* case <-time.After(backoff)
BackoffElapsed ==
  /\ px.pc = "backoff"
  /\ TimerFires(px)
  /\ px' = [px EXCEPT !.pc = "send", !.waited = @ + Backoff(px.attempt)]
  /\ UNCHANGED notPush

\* case <-ctx.Done(): return ctx.Err()
BackoffCancelled ==
  /\ px.pc = "backoff"
  /\ px.ctxDone
  /\ px' = [px EXCEPT !.pc = "done", !.result = [kind |-> "ctx", n |-> 0]]
  /\ UNCHANGED notPush

\* the caller's context is cancelled, or its deadline passes, during the call
PushCtxCancel ==
  /\ px.pc \in {"call", "send", "backoff"}
  /\ ~px.ctxDone
  /\ px' = [px EXCEPT !.ctxDone = TRUE]
  /\ UNCHANGED notPush

PushNext ==
  \/ PushCall
  \/ DoPush
  \/ BackoffElapsed
  \/ BackoffCancelled
  \/ PushCtxCancel

(***************************************************************************)
(* History bookkeeping, derived from the calls' inputs and outputs.        *)
(***************************************************************************)
Ids(s) == {s[i].id : i \in 1..Len(s)} \ {0}

IdSeq(s) == [i \in 1..Len(s) |-> s[i].id]

\* the entries of es that were in b before and are neither in nb nor in out
Evicted(b, es, nb) == (Ids(b.entries) \cup Ids(es)) \ Ids(nb.entries)

\* identities for k entries starting at n: 1..MaxIds, then 0 (untracked)
IdAt(n, i) == IF n + i - 1 <= MaxIds THEN n + i - 1 ELSE 0

Stamp(n, lens) == [i \in 1..Len(lens) |-> LogEntry(IdAt(n, i), lens[i], TypeLen, 0)]

NextIdAfter(n, k) == Min(n + k, MaxIds + 1)

LenSeqs(k) == UNION {[1..j -> MsgLens] : j \in 0..k}

\* the last n elements of s
LastN(s, n) == SubSeq(s, Len(s) - n + 1, Len(s))

\* the record of the last call, before any call
NoCall == [op |-> "New", pre |-> New(0), arg |-> <<>>, n |-> 0, bytes |-> 0, ret |-> <<>>, ok |-> FALSE]

(***************************************************************************)
(* internal/extension: the Manager.  Shared fields first.                  *)
(***************************************************************************)
StateIdle == 0
StateActive == 1
StateFlushing == 2

\* criticalFlushMu: free, or held by the flush loop or by the handler of request k
Free == 0
FlTask == MaxRequests + 1
NilChan == 0

\* the message length of a line written by the logger, and len("extension")
LogMsgLen == 3
ExtTypeLen == 9

\* history of the entries the callback of request k found in the buffer when it
\* started (each carries k in its w): how many they were (snap), and whether
\* overflow evicted one or a push that returned an error carried one (lost)
NoFate == [snap |-> 0, lost |-> FALSE]

\* the entries of s that the callback of request k found in the buffer
CountW(s, k) == Cardinality({i \in 1..Len(s) : k \in s[i].w})

Lose(f, s) == [k \in DOMAIN f |-> [f[k] EXCEPT !.lost = @ \/ CountW(s, k) > 0]]

Mark(s, k) == [i \in 1..Len(s) |-> [s[i] EXCEPT !.w = @ \cup {k}]]

Unmark(s, k) == [i \in 1..Len(s) |-> [s[i] EXCEPT !.w = @ \ {k}]]

\* the entries that b with es appended lost from the front to become nb
EvictedSeq(b, es, nb) ==
  SubSeq(b.entries \o es, 1, Len(b.entries) + Len(es) - Len(nb.entries))

\* the entries of a telemetry batch, from their message lengths
Entries(lens) == [i \in 1..Len(lens) |-> LogEntry(0, lens[i], TypeLen, 0)]

\* what a call into the buffer or a push changes: the buffer and the history
World == [b |-> buffer, s |-> sink]

\* Buffer.Add of one entry with message length msg and type length typ
WAdd(w, msg, typ) ==
  LET e == LogEntry(0, msg, typ, 0)
      r == Add(w.b, e)
  IN IF w.b.closed
       THEN w
       ELSE [b |-> r.b, s |-> Lose(w.s, EvictedSeq(w.b, <<e>>, r.b))]

\* Buffer.AddBatch of entries with the message lengths lens
WAddBatch(w, lens) ==
  LET es == Entries(lens)
      nb == AddBatch(w.b, es)
  IN IF w.b.closed
       THEN w
       ELSE [b |-> nb, s |-> Lose(w.s, EvictedSeq(w.b, es, nb))]

\* logger.log: if the logger has the buffer, Add the line to it, then SignalReady
WLog(w) ==
  LET w1 == WAdd(w, LogMsgLen, ExtTypeLen)
  IN IF cfg.logBuffer THEN [w1 EXCEPT !.b = SignalReady(w1.b)] ELSE w

WLogIf(cond, w) == IF cond THEN WLog(w) ELSE w

\* Push or PushCritical returned for batch: nil (ok) or an error
\* a push whose failed batch goes back into the buffer
WPushedRequeued(w, batch, ok) == IF ok THEN w ELSE [w EXCEPT !.b = AddBatch(@, batch)]

WPushed(w, batch, ok) == IF ok THEN w ELSE [w EXCEPT !.s = Lose(@, batch)]

Commit(w) ==
  /\ buffer' = w.b
  /\ sink' = w.s

\* setState on the shared cell: [state, ic (intervalChange), w]
\* a setState that signals whatever the old value
SetStateAlways(m, newState) == [state |-> newState, ic |-> 1, w |-> WLog(m.w)]

SetState(m, newState) ==
  IF m.state # newState
    THEN [state |-> newState, ic |-> 1, w |-> WLog(m.w)]
    ELSE m

Cell(w) == [state |-> state, ic |-> intervalChange, w |-> w]

CommitCell(m) ==
  /\ state' = m.state
  /\ intervalChange' = m.ic
  /\ Commit(m.w)

getFlushInterval(st) ==
  CASE st = StateActive -> cfg.FlushIntervalMs
    [] st = StateIdle -> cfg.FlushIntervalMs * cfg.IdleFlushMultiplier
    [] st = StateFlushing -> (cfg.FlushIntervalMs * 3) \div 2
    [] OTHER -> cfg.FlushIntervalMs

\* a loop that flushes on every ready edge
shouldFlushAlways(b) == TRUE

shouldFlush(b) ==
  \/ BufLen(b) >= cfg.BatchSize
  \/ (cfg.MaxBatchSizeBytes > 0 /\ ByteSize(b) >= cfg.MaxBatchSizeBytes)

\* flushBatch: the entries taken from the buffer (empty: nothing to push)
flushBatch(b) ==
  IF cfg.MaxBatchSizeBytes > 0
    THEN FlushBySize(b, cfg.BatchSize, cfg.MaxBatchSizeBytes)
    ELSE Flush(b, cfg.BatchSize)

\* a lock that never blocks
CanLockAlways(mu) == TRUE

\* criticalFlushMu.Lock() can return
CanLock(mu) == mu = Free

\* a loop that stops with one entry to go
CritStopEarly(remaining) == remaining > 1

\* the loop condition of criticalFlush
CritContinue(remaining) == remaining > 0

\* the process is running: Run has not returned to main
Alive == ev.pc # "returned"

\* the values of cfg the model runs the Manager with: batches of two entries
\* unless they are two lines of the logger, which exceed the byte limit
Configs ==
  {[BufferSize |-> 4, BatchSize |-> 2, MaxBatchSizeBytes |-> 39,
    FlushIntervalMs |-> 2, IdleFlushMultiplier |-> 3, logBuffer |-> TRUE]}

\* the values of cfg under overlapping requests: no byte limit
OverlapConfigs ==
  {[BufferSize |-> 2, BatchSize |-> 1, MaxBatchSizeBytes |-> 0,
    FlushIntervalMs |-> 2, IdleFlushMultiplier |-> 3, logBuffer |-> TRUE]}

\* the values of cfg for shutdown: the logger writing into the buffer (NewManager)
\* or not (a Manager built without logger.SetBuffer)
ShutdownConfigs == {[c EXCEPT !.logBuffer = lb] : c \in Configs, lb \in BOOLEAN}

NoHandler ==
  [pc |-> "none", pre |-> 0, rd |-> 0, post |-> 0, n |-> 0, stored |-> FALSE,
   sawClosed |-> FALSE, remaining |-> 0, batch |-> <<>>, failed |-> FALSE]

HandlerDone == [NoHandler EXCEPT !.pc = "done"]

\* the event loop; err is what Run returns, pushed the outcome of shutdown's push,
\* crit (history) the callbacks with a PushCritical of their critical flush in
\* flight when SHUTDOWN was handled
EvInit ==
  [pc |-> "next", inv |-> 0, mine |-> NilChan, wait |-> NilChan, batch |-> <<>>,
   err |-> "", pushed |-> "none", crit |-> {}]

\* the flush loop; failed tells whether its last Push returned an error
FlInit == [pc |-> "start", interval |-> 0, batch |-> <<>>, failed |-> FALSE]

HostInit == [inv |-> 0, reqs |-> 0, serverDown |-> FALSE, rdPosted |-> {}, rdDone |-> {}]

\* no request, the placeholder in the history of the Server
NoRequest == [method |-> "", body |-> [kind |-> "none", elems |-> <<>>], now |-> 0]

\* telemetryapi.NewServer, for the specifications that do not look into the receiver
SrvIdle ==
  [currentRequestID |-> <<>>, maxLineSize |-> 0, extractRequestID |-> FALSE,
   hasCallback |-> TRUE, n |-> 0, req |-> NoRequest, status |-> 0, out |-> <<>>,
   called |-> <<>>, pre |-> New(0), preId |-> <<>>]

\* the Manager at rest, for the specifications that do not run it
MgrIdle ==
  /\ cfg = [BufferSize |-> 1, BatchSize |-> 1, MaxBatchSizeBytes |-> 0,
            FlushIntervalMs |-> 1, IdleFlushMultiplier |-> 1, logBuffer |-> FALSE]
  /\ state = StateIdle
  /\ intervalChange = 0
  /\ stopFlush = FALSE
  /\ criticalFlushMu = Free
  /\ invocationDone = NilChan
  /\ chans = [made |-> 0, closed |-> {}]
  /\ ctxDone = FALSE
  /\ ev = EvInit
  /\ fl = FlInit
  /\ hs = [k \in 1..MaxRequests |-> NoHandler]
  /\ host = HostInit
  /\ sink = [k \in 1..MaxRequests |-> NoFate]
  /\ srv = SrvIdle

\* NewManager, and Run up to the start of the flush loop and the event loop
MgrInit(configs) ==
  /\ cfg \in configs
  /\ buffer = New(cfg.BufferSize)
  /\ nextId = 1
  /\ dropped = {}
  /\ state = StateIdle
  /\ intervalChange = 0
  /\ stopFlush = FALSE
  /\ criticalFlushMu = Free
  /\ invocationDone = NilChan
  /\ chans = [made |-> 0, closed |-> {}]
  /\ ctxDone = FALSE
  /\ ev = EvInit
  /\ fl = FlInit
  /\ hs = [k \in 1..MaxRequests |-> NoHandler]
  /\ host = HostInit
  /\ sink = [k \in 1..MaxRequests |-> NoFate]
  /\ srv = SrvIdle

\* what a step of the Manager never touches
notMgr == <<nextId, dropped, returned, last, px, cfg, srv>>

(***************************************************************************)
(* Manager.eventLoop and Manager.shutdown.                                 *)
(***************************************************************************)
\* NextEvent returns an error: the context is cancelled
EvNextCancelled ==
  /\ ev.pc = "next"
  /\ ctxDone
  /\ ev' = [ev EXCEPT !.pc = "returned", !.err = "context canceled"]
  /\ UNCHANGED <<buffer, sink, state, intervalChange, stopFlush, criticalFlushMu,
                 invocationDone, chans, ctxDone, fl, hs, host, notMgr>>

\* NextEvent returns INVOKE: the host has started its next invocation
EvNextInvoke ==
  /\ ev.pc = "next"
  /\ host.inv < MaxInvokes
  /\ host' = [host EXCEPT !.inv = @ + 1]
  /\ ev' = [ev EXCEPT !.pc = "invoke", !.inv = host.inv + 1]
  /\ UNCHANGED <<buffer, sink, state, intervalChange, stopFlush, criticalFlushMu,
                 invocationDone, chans, ctxDone, fl, hs, notMgr>>

\* NextEvent returns SHUTDOWN
EvNextShutdown ==
  /\ ev.pc = "next"
  /\ ev' = [ev EXCEPT !.pc = "shutdown",
                      !.crit = {k \in 1..MaxRequests : hs[k].pc = "cfpush"}]
  /\ UNCHANGED <<buffer, sink, state, intervalChange, stopFlush, criticalFlushMu,
                 invocationDone, chans, ctxDone, fl, hs, host, notMgr>>

\* case Invoke: m.invocationDone = make(chan struct{}), under invocationMu;
\* m.setState(StateActive); logger.Infof("Received INVOKE event ...")
EvStoreChan ==
  /\ ev.pc = "invoke"
  /\ chans' = [chans EXCEPT !.made = @ + 1]
  /\ invocationDone' = chans.made + 1
  /\ \E m \in {SetState(Cell(World), StateActive)} :
       CommitCell([m EXCEPT !.w = WLog(m.w)])
  /\ ev' = [ev EXCEPT !.pc = "select", !.mine = chans.made + 1]
  /\ UNCHANGED <<stopFlush, criticalFlushMu, ctxDone, fl, hs, host, notMgr>>

\* the select evaluates m.invocationDone without invocationMu: when a callback has
\* written the field since, the read yields that write or the loop's own
EvSelect ==
  /\ ev.pc = "select"
  /\ \E c \in {invocationDone, ev.mine} : ev' = [ev EXCEPT !.pc = "wait", !.wait = c]
  /\ UNCHANGED <<buffer, sink, state, intervalChange, stopFlush, criticalFlushMu,
                 invocationDone, chans, ctxDone, fl, hs, host, notMgr>>

\* case <-m.invocationDone: logger.Infof("Invocation complete ..."), next iteration
EvReleased ==
  /\ ev.pc = "wait"
  /\ ev.wait # NilChan
  /\ ev.wait \in chans.closed
  /\ Commit(WLog(World))
  /\ ev' = [ev EXCEPT !.pc = "next"]
  /\ UNCHANGED <<state, intervalChange, stopFlush, criticalFlushMu, invocationDone, chans,
                 ctxDone, fl, hs, host, notMgr>>

\* case <-ctx.Done(): return ctx.Err()
EvWaitCancelled ==
  /\ ev.pc = "wait"
  /\ ctxDone
  /\ ev' = [ev EXCEPT !.pc = "returned", !.err = "context canceled"]
  /\ UNCHANGED <<buffer, sink, state, intervalChange, stopFlush, criticalFlushMu,
                 invocationDone, chans, ctxDone, fl, hs, host, notMgr>>

\* case Shutdown: logger.Infof("Received SHUTDOWN ..."); close(m.stopFlush)
EvShutdownStop ==
  /\ ev.pc = "shutdown"
  /\ Commit(WLog(World))
  /\ stopFlush' = TRUE
  /\ ev' = [ev EXCEPT !.pc = "srvdown"]
  /\ UNCHANGED <<state, intervalChange, criticalFlushMu, invocationDone, chans, ctxDone,
                 fl, hs, host, notMgr>>

\* telemetryServer.Shutdown(2s): no new request; returns when the handlers are done
\* or, with an error that is logged, when the 2 s are over; then Sleep(100ms)
EvServerShutdown ==
  /\ ev.pc = "srvdown"
  /\ host' = [host EXCEPT !.serverDown = TRUE]
  /\ Commit(WLogIf(\E k \in 1..MaxRequests : hs[k].pc \notin {"none", "done"}, World))
  /\ ev' = [ev EXCEPT !.pc = "drain"]
  /\ UNCHANGED <<state, intervalChange, stopFlush, criticalFlushMu, invocationDone, chans,
                 ctxDone, fl, hs, notMgr>>

\* logger.Infof("Draining buffer..."); entries := m.buffer.Drain(); with entries:
\* log, build the request and call PushCritical; without: log, return nil
EvDrain ==
  /\ ev.pc = "drain"
  /\ LET w1 == WLog(World)
         r == Drain(w1.b)
     IN /\ Commit(WLog([w1 EXCEPT !.b = r.b]))
        /\ IF Len(r.ret) > 0
             THEN ev' = [ev EXCEPT !.pc = "finalpush", !.batch = r.ret]
             ELSE ev' = [ev EXCEPT !.pc = "returned"]
  /\ UNCHANGED <<state, intervalChange, stopFlush, criticalFlushMu, invocationDone, chans,
                 ctxDone, fl, hs, host, notMgr>>

\* PushCritical(ctx, pushReq) returns; an error is logged; "Shutdown complete"
EvFinalPush ==
  /\ ev.pc = "finalpush"
  /\ \E ok \in BOOLEAN :
       /\ Commit(WLog(WLogIf(~ok, WPushed(World, ev.batch, ok))))
       /\ ev' = [ev EXCEPT !.pc = "returned", !.batch = <<>>,
                           !.pushed = IF ok THEN "ok" ELSE "failed"]
  /\ UNCHANGED <<state, intervalChange, stopFlush, criticalFlushMu, invocationDone, chans,
                 ctxDone, fl, hs, host, notMgr>>

\* main: the signal handler cancels the context
CtxCancel ==
  /\ Alive
  /\ ~ctxDone
  /\ ctxDone' = TRUE
  /\ UNCHANGED <<buffer, sink, state, intervalChange, stopFlush, criticalFlushMu,
                 invocationDone, chans, ev, fl, hs, host, notMgr>>

(***************************************************************************)
(* Manager.flushLoop and Manager.flush.                                    *)
(***************************************************************************)
\* interval := m.getFlushInterval(); NewTicker; logger.Infof("Flush loop started ...")
FlStart ==
  /\ Alive
  /\ fl.pc = "start"
  /\ fl' = [fl EXCEPT !.pc = "select", !.interval = getFlushInterval(state)]
  /\ Commit(WLog(World))
  /\ UNCHANGED <<state, intervalChange, stopFlush, criticalFlushMu, invocationDone, chans,
                 ctxDone, ev, hs, host, notMgr>>

\* case <-ctx.Done(): return
FlCtxDone ==
  /\ Alive
  /\ fl.pc = "select"
  /\ ctxDone
  /\ fl' = [fl EXCEPT !.pc = "exited"]
  /\ UNCHANGED <<buffer, sink, state, intervalChange, stopFlush, criticalFlushMu,
                 invocationDone, chans, ctxDone, ev, hs, host, notMgr>>

\* a loop whose select has no stopFlush case
FlStopNever ==
  /\ Alive
  /\ fl.pc = "never"
  /\ fl' = [fl EXCEPT !.pc = "exited"]
  /\ UNCHANGED <<buffer, sink, state, intervalChange, stopFlush, criticalFlushMu,
                 invocationDone, chans, ctxDone, ev, hs, host, notMgr>>

\* case <-m.stopFlush: return
FlStop ==
  /\ Alive
  /\ fl.pc = "select"
  /\ stopFlush
  /\ fl' = [fl EXCEPT !.pc = "exited"]
  /\ UNCHANGED <<buffer, sink, state, intervalChange, stopFlush, criticalFlushMu,
                 invocationDone, chans, ctxDone, ev, hs, host, notMgr>>

\* case <-m.intervalChange: recompute; on a new value reset the ticker and log
FlIntervalChange ==
  /\ Alive
  /\ fl.pc = "select"
  /\ intervalChange = 1
  /\ intervalChange' = 0
  /\ LET newInterval == getFlushInterval(state)
     IN /\ fl' = [fl EXCEPT !.interval = newInterval]
        /\ Commit(WLogIf(newInterval # fl.interval, World))
  /\ UNCHANGED <<state, stopFlush, criticalFlushMu, invocationDone, chans, ctxDone, ev, hs,
                 host, notMgr>>

\* a ticker whose case is never taken
FlTickNever ==
  /\ Alive
  /\ fl.pc = "never"
  /\ fl' = [fl EXCEPT !.pc = "lock"]
  /\ UNCHANGED <<buffer, sink, state, intervalChange, stopFlush, criticalFlushMu,
                 invocationDone, chans, ctxDone, ev, hs, host, notMgr>>

\* case <-ticker.C: m.flush(ctx, false)
FlTick ==
  /\ Alive
  /\ fl.pc = "select"
  /\ fl' = [fl EXCEPT !.pc = "lock"]
  /\ UNCHANGED <<buffer, sink, state, intervalChange, stopFlush, criticalFlushMu,
                 invocationDone, chans, ctxDone, ev, hs, host, notMgr>>

\* case <-m.buffer.Ready(): if m.shouldFlush() { m.flush(ctx, false) }
FlReady ==
  /\ Alive
  /\ fl.pc = "select"
  /\ buffer.ready = 1
  /\ buffer' = ReadyRecv(buffer)
  /\ fl' = [fl EXCEPT !.pc = IF shouldFlush(buffer) THEN "lock" ELSE "select"]
  /\ UNCHANGED <<sink, state, intervalChange, stopFlush, criticalFlushMu,
                 invocationDone, chans, ctxDone, ev, hs, host, notMgr>>

\* flush: Lock; flushBatch; nil: unlock and return; else log and call Push
FlLock ==
  /\ Alive
  /\ fl.pc = "lock"
  /\ CanLock(criticalFlushMu)
  /\ \E r \in {flushBatch(buffer)} :
        IF Len(r.ret) = 0
          THEN /\ fl' = [fl EXCEPT !.pc = "select"]
               /\ UNCHANGED <<buffer, sink, criticalFlushMu>>
          ELSE /\ fl' = [fl EXCEPT !.pc = "push", !.batch = r.ret]
               /\ Commit(WLog([World EXCEPT !.b = r.b]))
               /\ criticalFlushMu' = FlTask
  /\ UNCHANGED <<state, intervalChange, stopFlush, invocationDone, chans, ctxDone, ev, hs,
                 host, notMgr>>

\* Push returns: an error is logged; the deferred Unlock runs
FlPush ==
  /\ Alive
  /\ fl.pc = "push"
  /\ \E ok \in BOOLEAN :
       /\ Commit(WLogIf(~ok, WPushed(World, fl.batch, ok)))
       /\ fl' = [fl EXCEPT !.pc = "select", !.batch = <<>>, !.failed = ~ok]
  /\ criticalFlushMu' = Free
  /\ UNCHANGED <<state, intervalChange, stopFlush, invocationDone, chans, ctxDone, ev, hs,
                 host, notMgr>>

(***************************************************************************)
(* Server.handleTelemetry, one task per request, and Manager.onRuntimeDone *)
(* with Manager.criticalFlush, which it runs on the handler's task.        *)
(***************************************************************************)
\* the requests the host posts: one function line, or a platform.runtimeDone of
\* an invocation already started, alone or followed by a function line
Shapes ==
  {[pre |-> 1, rd |-> 0, post |-> 0]}
    \cup {[pre |-> 0, rd |-> r, post |-> q] : q \in {0, 1}, r \in 1..host.inv}

\* the entries the loop over the events has built when it meets the runtimeDone
BatchUpToRuntimeDone(h) == [i \in 1..(h.pre + (IF h.rd # 0 THEN 1 ELSE 0)) |-> LogMsgLen]

\* the entries the loop over the events builds, as message lengths
BatchOf(h) == [i \in 1..(h.pre + (IF h.rd # 0 THEN 1 ELSE 0) + h.post) |-> LogMsgLen]

HandlerBusy(h) == h.pc \notin {"none", "done"}

\* a POST arrives and its body parses; request k is the k-th to arrive
Arrive(k) ==
  /\ Alive
  /\ hs[k].pc = "none"
  /\ ~host.serverDown
  /\ k = host.reqs + 1
  /\ \E sh \in Shapes :
       /\ hs' = [hs EXCEPT ![k] = [@ EXCEPT !.pc = "add", !.pre = sh.pre, !.rd = sh.rd,
                                             !.post = sh.post]]
       /\ host' = [host EXCEPT !.reqs = k,
                               !.rdPosted = IF sh.rd # 0 THEN @ \cup {sh.rd} ELSE @]
  /\ UNCHANGED <<buffer, sink, state, intervalChange, stopFlush, criticalFlushMu,
                 invocationDone, chans, ctxDone, ev, fl, notMgr>>

\* the host posts a request after the response to the one before
HRecv(k) ==
  /\ \A j \in 1..MaxRequests : ~HandlerBusy(hs[j])
  /\ Arrive(k)

\* the host posts a request while another is being handled
HRecvOverlap(k) ==
  /\ \E j \in 1..MaxRequests : HandlerBusy(hs[j])
  /\ Arrive(k)

\* if len(entries) > 0 { s.buffer.AddBatch(entries) }
HAddBatch(k) ==
  /\ Alive
  /\ hs[k].pc = "add"
  /\ \E lens \in {BatchOf(hs[k])} :
     \E w \in {IF Len(lens) > 0 THEN WAddBatch(World, lens) ELSE World} :
     \E kept \in {Min(Len(lens), buffer.maxSize)} :
        /\ Commit(w)
        /\ hs' = [hs EXCEPT ![k] = [@ EXCEPT
                    !.pc = "added",
                    !.n = Len(lens),
                    !.sawClosed = buffer.closed,
                    !.stored = /\ Len(w.b.entries) >= kept
                               /\ LastN(w.b.entries, kept) = LastN(Entries(lens), kept)]]
  /\ UNCHANGED <<state, intervalChange, stopFlush, criticalFlushMu, invocationDone, chans,
                 ctxDone, ev, fl, host, notMgr>>

\* no runtimeDone with a request id in the batch: WriteHeader(200)
HRespond(k) ==
  /\ Alive
  /\ hs[k].pc = "added"
  /\ hs[k].rd = 0
  /\ hs' = [hs EXCEPT ![k] = HandlerDone]
  /\ UNCHANGED <<buffer, sink, state, intervalChange, stopFlush, criticalFlushMu,
                 invocationDone, chans, ctxDone, ev, fl, host, notMgr>>

\* a callback that goes to its critical flush without the transition
HCallbackNoState(k) ==
  /\ Alive
  /\ hs[k].pc = "added"
  /\ hs[k].rd # 0
  /\ \E found \in {[b |-> [buffer EXCEPT !.entries = Mark(@, k)],
                      s |-> [sink EXCEPT ![k].snap = Len(buffer.entries)]]} :
       Commit(WLog(found))
  /\ hs' = [hs EXCEPT ![k] = [HandlerDone EXCEPT !.pc = "cflock", !.rd = hs[k].rd]]
  /\ UNCHANGED <<state, intervalChange, stopFlush, criticalFlushMu, invocationDone, chans,
                 ctxDone, ev, fl, host, notMgr>>

\* s.onRuntimeDone(id) starts: log; m.setState(StateFlushing)
HCallback(k) ==
  /\ Alive
  /\ hs[k].pc = "added"
  /\ hs[k].rd # 0
  /\ \E found \in {[b |-> [buffer EXCEPT !.entries = Mark(@, k)],
                      s |-> [sink EXCEPT ![k].snap = Len(buffer.entries)]]} :
     \E w \in {WLog(found)} :
     \E m \in {SetState(Cell(w), StateFlushing)} : CommitCell(m)
  /\ hs' = [hs EXCEPT ![k] = [HandlerDone EXCEPT !.pc = "cflock", !.rd = hs[k].rd]]
  /\ UNCHANGED <<stopFlush, criticalFlushMu, invocationDone, chans, ctxDone, ev, fl, host,
                 notMgr>>

\* a loop that forgets what it pulled
RemainingKept(remaining, n) == remaining

\* remaining -= n
RemainingAfter(remaining, n) == remaining - n

\* the loop of criticalFlush from its condition, on the world w with remaining
\* entries to go: flushBatch, nil: break; remaining -= n; call PushCritical.
\* The result is w after it, the batch in flight (none: the loop is over) and remaining
CritLoop(w, remaining) ==
  LET r == flushBatch(w.b)
  IN IF CritContinue(remaining) /\ Len(r.ret) > 0
       THEN [w |-> [w EXCEPT !.b = r.b], batch |-> r.ret,
             remaining |-> RemainingAfter(remaining, Len(r.ret))]
       ELSE [w |-> w, batch |-> <<>>, remaining |-> remaining]

\* criticalFlush returns (the deferred Unlock runs); m.setState(StateIdle)
CritReturn(k, w, failed) ==
  /\ criticalFlushMu' = Free
  /\ \E m \in {SetState(Cell(w), StateIdle)} : CommitCell(m)
  /\ hs' = [hs EXCEPT ![k] = [@ EXCEPT !.pc = "close", !.batch = <<>>, !.failed = failed]]

\* criticalFlush: Lock; remaining := m.buffer.Len(); 0: return; else log and loop
HCritLock(k) ==
  /\ Alive
  /\ hs[k].pc = "cflock"
  /\ CanLock(criticalFlushMu)
  /\ \E w \in {WLog(World)} :
     \E l \in {CritLoop(w, BufLen(buffer))} :
        IF BufLen(buffer) = 0
          THEN CritReturn(k, World, FALSE)
          ELSE IF Len(l.batch) = 0
                 THEN CritReturn(k, l.w, FALSE)
                 ELSE /\ criticalFlushMu' = k
                      /\ Commit(l.w)
                      /\ hs' = [hs EXCEPT ![k] = [@ EXCEPT !.pc = "cfpush", !.batch = l.batch,
                                                            !.remaining = l.remaining]]
                      /\ UNCHANGED <<state, intervalChange>>
  /\ UNCHANGED <<stopFlush, invocationDone, chans, ctxDone, ev, fl, host, notMgr>>

\* PushCritical returns: an error is logged and breaks; else the loop goes on
HCritPush(k) ==
  /\ Alive
  /\ hs[k].pc = "cfpush"
  /\ \E ok \in BOOLEAN :
     \E w \in {WLogIf(~ok, WPushed(World, hs[k].batch, ok))} :
     \E l \in {CritLoop(w, hs[k].remaining)} :
          IF ok /\ Len(l.batch) > 0
            THEN /\ Commit(l.w)
                 /\ hs' = [hs EXCEPT ![k] = [@ EXCEPT !.batch = l.batch,
                                                       !.remaining = l.remaining]]
                 /\ UNCHANGED <<criticalFlushMu, state, intervalChange>>
            ELSE CritReturn(k, w, ~ok)
  /\ UNCHANGED <<stopFlush, invocationDone, chans, ctxDone, ev, fl, host, notMgr>>

\* a slot that keeps the channel it closed
SlotKept(ch) == ch

\* m.invocationDone = nil
SlotAfterClose(ch) == NilChan

\* under invocationMu: a stored channel is closed and the field set to nil; 200.
\* The history of the entries this callback found ends here.
HClose(k) ==
  /\ Alive
  /\ hs[k].pc = "close"
  /\ IF invocationDone # NilChan
       THEN /\ chans' = [chans EXCEPT !.closed = @ \cup {invocationDone}]
            /\ invocationDone' = SlotAfterClose(invocationDone)
       ELSE UNCHANGED <<chans, invocationDone>>
  /\ hs' = [j \in 1..MaxRequests |->
              IF j = k THEN HandlerDone ELSE [hs[j] EXCEPT !.batch = Unmark(@, k)]]
  /\ buffer' = [buffer EXCEPT !.entries = Unmark(@, k)]
  /\ fl' = [fl EXCEPT !.batch = Unmark(@, k)]
  /\ ev' = [ev EXCEPT !.batch = Unmark(@, k)]
  /\ sink' = [sink EXCEPT ![k] = NoFate]
  /\ host' = [host EXCEPT !.rdDone = @ \cup {hs[k].rd}]
  /\ UNCHANGED <<state, intervalChange, stopFlush, criticalFlushMu, ctxDone, notMgr>>

(***************************************************************************)
(* Spec: the Manager running, with the host and the sink as environment.   *)
(***************************************************************************)
Init ==
  /\ MgrInit(Configs)
  /\ returned = <<>>
  /\ last = NoCall
  /\ px = PxIdle

InitOverlap ==
  /\ MgrInit(OverlapConfigs)
  /\ returned = <<>>
  /\ last = NoCall
  /\ px = PxIdle

\* the event loop between NextEvent returning INVOKE and the next NextEvent
EvInvoke ==
  \/ EvStoreChan
  \/ EvSelect
  \/ EvReleased

EvNext ==
  \/ EvInvoke
  \/ EvNextCancelled
  \/ EvWaitCancelled
  \/ EvShutdownStop
  \/ EvServerShutdown
  \/ EvDrain
  \/ EvFinalPush

\* the flush loop while it is neither stopped nor cancelled
FlRun ==
  \/ FlStart
  \/ FlIntervalChange
  \/ FlReady
  \/ FlLock
  \/ FlPush

FlNext ==
  \/ FlRun
  \/ FlCtxDone
  \/ FlStop

HNext(k) ==
  \/ HAddBatch(k)
  \/ HRespond(k)
  \/ HCallback(k)
  \/ HCritLock(k)
  \/ HCritPush(k)
  \/ HClose(k)

\* what the host and the clock do while the process is neither shut down nor
\* signalled, with one request at a time
EnvQuiet ==
  \/ EvNextInvoke
  \/ FlTick
  \/ \E k \in 1..MaxRequests : HRecv(k)

\* what the host, the clock and the signal handler do
EnvNext ==
  \/ EnvQuiet
  \/ EvNextShutdown
  \/ CtxCancel

Next ==
  \/ EvNext
  \/ FlNext
  \/ \E k \in 1..MaxRequests : HNext(k)
  \/ EnvNext

Spec == Init /\ [][Next]_vars

(***************************************************************************)
(* SpecShutdown: as Spec, with the logger writing into the buffer or not.  *)
(***************************************************************************)
InitShutdown ==
  /\ MgrInit(ShutdownConfigs)
  /\ returned = <<>>
  /\ last = NoCall
  /\ px = PxIdle

SpecShutdown == InitShutdown /\ [][Next]_vars

(***************************************************************************)
(* SpecOverlap: requests that overlap, while the process is neither shut   *)
(* down nor signalled.                                                     *)
(***************************************************************************)
NextOverlap ==
  \/ EvInvoke
  \/ FlRun
  \/ \E k \in 1..MaxRequests : HNext(k)
  \/ EnvQuiet
  \/ \E k \in 1..MaxRequests : HRecvOverlap(k)

SpecOverlap == InitOverlap /\ [][NextOverlap]_vars

(***************************************************************************)
(* SpecFailure: as SpecOverlap, on a buffer of three entries with batches  *)
(* of one, the logger writing into the buffer or not.                      *)
(***************************************************************************)
FailureConfigs ==
  {[BufferSize |-> 3, BatchSize |-> 1, MaxBatchSizeBytes |-> 0,
    FlushIntervalMs |-> 2, IdleFlushMultiplier |-> 3, logBuffer |-> lb] : lb \in BOOLEAN}

InitFailure ==
  /\ MgrInit(FailureConfigs)
  /\ returned = <<>>
  /\ last = NoCall
  /\ px = PxIdle

SpecFailure == InitFailure /\ [][NextOverlap]_vars

(***************************************************************************)
(* SpecFlush: as Spec, with and without a byte limit on the batch and the  *)
(* logger writing into the buffer or not.                                  *)
(***************************************************************************)
FlushConfigs ==
  {[BufferSize |-> 3, BatchSize |-> 2, MaxBatchSizeBytes |-> mb,
    FlushIntervalMs |-> 2, IdleFlushMultiplier |-> 3, logBuffer |-> lb] :
     mb \in {0, 20, 39}, lb \in BOOLEAN}

InitFlush ==
  /\ MgrInit(FlushConfigs)
  /\ returned = <<>>
  /\ last = NoCall
  /\ px = PxIdle

SpecFlush == InitFlush /\ [][Next]_vars

(***************************************************************************)
(* FairSpec: no shutdown and no signal, one request at a time.  Every task  *)
(* that can take a step is scheduled, and a task waiting in Lock gets the  *)
(* mutex (sync.Mutex hands it to a starving waiter); the environment owes  *)
(* nothing.                                                                *)
(***************************************************************************)
NextQuiet ==
  \/ EvInvoke
  \/ FlRun
  \/ \E k \in 1..MaxRequests : HNext(k)
  \/ EnvQuiet

FairSpec ==
  /\ Init
  /\ [][NextQuiet]_vars
  /\ WF_vars(EvInvoke)
  /\ WF_vars(FlRun)
  /\ SF_vars(FlLock)
  /\ \A k \in 1..MaxRequests : WF_vars(HNext(k)) /\ SF_vars(HCritLock(k))

(***************************************************************************)
(* FairTick: no shutdown and no signal, one request at a time; the flush   *)
(* loop runs, its ticker keeps firing and the tick case is taken again and *)
(* again, a flush waiting in Lock gets the mutex, and every Push and       *)
(* PushCritical returns.  Nothing is assumed about the ready case.         *)
(***************************************************************************)
TickConfigs ==
  {[BufferSize |-> 2, BatchSize |-> 2, MaxBatchSizeBytes |-> 0,
    FlushIntervalMs |-> 2, IdleFlushMultiplier |-> 3, logBuffer |-> TRUE]}

InitTick ==
  /\ MgrInit(TickConfigs)
  /\ returned = <<>>
  /\ last = NoCall
  /\ px = PxIdle

FairTick ==
  /\ InitTick
  /\ [][NextQuiet]_vars
  /\ WF_vars(FlStart)
  /\ SF_vars(FlTick)
  /\ SF_vars(FlLock)
  /\ WF_vars(FlPush)
  /\ \A k \in 1..MaxRequests : WF_vars(HCritPush(k))

(***************************************************************************)
(* FairLoop: the whole Manager, shutdown and cancellation included, with   *)
(* fairness for the flush loop only: it starts, a select with a raised     *)
(* stop signal ends up taking one of the two return cases (the runtime     *)
(* picks among the ready cases at random), a flush waiting in Lock gets    *)
(* the mutex, and every Push and PushCritical returns.  The event loop     *)
(* owes nothing: it may return at once or stay where it is.                *)
(***************************************************************************)
LoopConfigs ==
  {[BufferSize |-> 1, BatchSize |-> 1, MaxBatchSizeBytes |-> 0,
    FlushIntervalMs |-> 2, IdleFlushMultiplier |-> 3, logBuffer |-> TRUE]}

InitLoop ==
  /\ MgrInit(LoopConfigs)
  /\ returned = <<>>
  /\ last = NoCall
  /\ px = PxIdle

FairLoop ==
  /\ InitLoop
  /\ [][Next]_vars
  /\ WF_vars(FlStart)
  /\ SF_vars(FlCtxDone \/ FlStop)
  /\ SF_vars(FlLock)
  /\ WF_vars(FlPush)
  /\ \A k \in 1..MaxRequests : WF_vars(HCritPush(k))

(***************************************************************************)
(* Claims about the Manager and the receiver.                              *)
(***************************************************************************)
\* the event loop is between handling an INVOKE and its next NextEvent
AtBarrier == ev.pc \in {"invoke", "select", "wait"}

\* C1: the event loop leaves the barrier of an invocation only after a runtime-done
\* callback of that same invocation has run its critical flush to the end (the
\* other way out, cancellation, ends the loop and does not call NextEvent again)
C1_BarrierUntilOwnFlush ==
  [][(ev.pc = "wait" /\ ev'.pc = "next") => ev.inv \in host.rdDone]_vars

\* the entries the callback of request k found that a push still carries
InFlight(k) ==
  CountW(fl.batch, k) + CountW(ev.batch, k)
    + Cardinality({<<j, i>> \in (1..MaxRequests) \X (1..cfg.BufferSize) :
                     i <= Len(hs[j].batch) /\ k \in hs[j].batch[i].w})

\* the callback of request k closes the barrier in this step
ClosesBarrier(k) == hs[k].pc = "close" /\ hs'[k].pc = "done" /\ invocationDone # NilChan

\* every entry the callback of request k found has been delivered
AllDelivered(k) ==
  /\ ~sink[k].lost
  /\ CountW(buffer.entries, k) = 0
  /\ InFlight(k) = 0

InFlush ==
  {k \in 1..MaxRequests : hs[k].pc = "cfpush"} \cup (IF fl.pc = "push" THEN {FlTask} ELSE {})

\* C3: at most one flush, regular or critical, is between taking the flush mutex
\* and releasing it, and only that one holds a batch taken from the buffer
C3_OneFlushAtATime ==
  /\ Cardinality(InFlush) <= 1
  /\ \A k \in 1..MaxRequests : Len(hs[k].batch) > 0 => (InFlush = {k} /\ Len(fl.batch) = 0)
  /\ Len(fl.batch) > 0 => InFlush = {FlTask}

\* a critical flush is pushing while another callback and the flush loop wait
C3_Witness ==
  /\ fl.pc = "lock"
  /\ \E j, k \in 1..MaxRequests : hs[j].pc = "cfpush" /\ hs[k].pc = "cflock"

\* the callback of request k is about to start
CallbackStarts(k) == hs[k].pc = "added" /\ hs[k].rd # 0

\* C4 as stated: when the callback of a request starts, all entries of the request,
\* those after the runtimeDone included, have been stored in the buffer
C4_Original ==
  \A k \in 1..MaxRequests :
    CallbackStarts(k) => (hs[k].n = hs[k].pre + 1 + hs[k].post /\ hs[k].stored)

\* C4: when the callback of a request starts, all entries of the request, those
\* after the runtimeDone included, have been handed to the buffer in one AddBatch
\* call that has returned; it stored them unless the buffer was closed
C4_AddBatchBeforeCallback ==
  \A k \in 1..MaxRequests :
    CallbackStarts(k) =>
      /\ hs[k].n = hs[k].pre + 1 + hs[k].post
      /\ hs[k].stored \/ hs[k].sawClosed

\* a callback is about to start for a request with an event after the runtimeDone
C4_Witness ==
  \E k \in 1..MaxRequests :
    CallbackStarts(k) /\ hs[k].post = 1 /\ hs[k].stored /\ ~hs[k].sawClosed

\* the changes of Manager.state the state machine allows
LegalTransitions ==
  {<<StateIdle, StateActive>>, <<StateActive, StateFlushing>>, <<StateFlushing, StateIdle>>}

\* C13: every change of Manager.state is IDLE -> ACTIVE, ACTIVE -> FLUSHING or
\* FLUSHING -> IDLE
C13_OnlyLegalTransitions ==
  [][state' # state => <<state, state'>> \in LegalTransitions]_vars

\* the concatenation of the batches in ss
RECURSIVE Concat(_)
Concat(ss) == IF ss = <<>> THEN <<>> ELSE Head(ss) \o Concat(Tail(ss))

\* the byte cap never ends a batch of es before the count limit does
CapNotBinding(es) ==
  \/ cfg.MaxBatchSizeBytes = 0
  \/ \A i \in 1..Len(es) :
       SumSizes(SubSeq(es, i, Min(Len(es), i + cfg.BatchSize - 1))) <= cfg.MaxBatchSizeBytes

\* C12: a critical flush that started with N entries, during which no entry was
\* added, whose byte cap was not binding and whose pushes all succeeded, made
\* ceil(N / BatchSize) PushCritical calls carrying the N entries in FIFO order, BatchSize
\* entries each except possibly the last, and left the buffer empty
C12_CriticalFlushBatches ==
  LET es == last.pre.entries
      N == Len(es)
      limit == cfg.BatchSize
      pushes == last.ret
  IN (last.op = "criticalFlush" /\ hs[1].pc = "done" /\ last.n = 0 /\ last.ok
        /\ CapNotBinding(es)) =>
       /\ Len(pushes) = (N + limit - 1) \div limit
       /\ Concat(pushes) = es
       /\ \A i \in 1..Len(pushes) :
            /\ Len(pushes[i]) >= 1
            /\ Len(pushes[i]) <= limit
            /\ i < Len(pushes) => Len(pushes[i]) = limit
       /\ buffer.entries = <<>>
       /\ buffer.byteSize = 0

\* a critical flush of three entries with a limit of two pushed two, then one
C12_Witness ==
  /\ last.op = "criticalFlush"
  /\ hs[1].pc = "done"
  /\ last.n = 0
  /\ last.ok
  /\ CapNotBinding(last.pre.entries)
  /\ cfg.BatchSize = 2
  /\ Len(last.pre.entries) = 3
  /\ Len(last.ret) = 2
  /\ Len(last.ret[2]) = 1

\* C5: an event loop at the barrier of an invocation whose runtime-done batch has
\* reached the receiver eventually leaves the barrier
C5_EventuallyReleased == (AtBarrier /\ ev.inv \in host.rdPosted) ~> ~AtBarrier

(***************************************************************************)
(* Strings are sequences of byte values; the text of an RFC3339 timestamp  *)
(* for the millisecond t is the single symbol 1000 + t.                    *)
(***************************************************************************)
\* the decimal digits of n >= 0, as fmt's %d writes them
RECURSIVE Digits(_)
Digits(n) == IF n < 10 THEN <<48 + n>> ELSE Digits(n \div 10) \o <<48 + (n % 10)>>

\* unicode.IsSpace for the bytes the model uses: tab, newline, carriage return, space
IsSpace(c) == c \in {9, 10, 11, 12, 13, 32}

RECURSIVE TrimLeft(_)
TrimLeft(s) == IF s # <<>> /\ IsSpace(Head(s)) THEN TrimLeft(Tail(s)) ELSE s

RECURSIVE TrimRight(_)
TrimRight(s) ==
  IF s # <<>> /\ IsSpace(s[Len(s)]) THEN TrimRight(SubSeq(s, 1, Len(s) - 1)) ELSE s

\* strings.TrimSpace
TrimSpace(s) == TrimRight(TrimLeft(s))

\* strings.Index(s, sub): the 0-based index of the first occurrence, or -1
IndexOf(s, sub) ==
  LET hits == {i \in 0..(Len(s) - Len(sub)) : SubSeq(s, i + 1, i + Len(sub)) = sub}
  IN IF hits = {} THEN -1 ELSE CHOOSE i \in hits : \A j \in hits : i <= j

\* strings.Contains
Contains(s, sub) == IndexOf(s, sub) >= 0

\* s[from:], 0-based
From(s, from) == SubSeq(s, from + 1, Len(s))

\* the text of the timestamp t, and what anything else parses to: time.Now()
TimeText(t) == <<1000 + t>>

parseTimestamp(timeStr, now) ==
  IF Len(timeStr) = 1 /\ timeStr[1] >= 1000 THEN timeStr[1] - 1000 ELSE now

\* findJSONStart: the index of the first '{' or '[', 0 if there is none
findJSONStart(s) ==
  LET hits == {i \in 0..(Len(s) - 1) : s[i + 1] \in {123, 91}}
  IN IF hits = {} THEN 0 ELSE CHOOSE i \in hits : \A j \in hits : i <= j

\* formatRecordWithTimestamp for a record whose text is msg: the cleaned message
\* and its timestamp
formatRecordWithTimestamp(msg, fallbackTime, now) ==
  LET idx == findJSONStart(msg)
      prefix == SubSeq(msg, 1, idx)
      tabIdx == IndexOf(prefix, <<9>>)
  IN IF idx > 0
       THEN IF tabIdx > 0
              THEN [message |-> TrimSpace(From(msg, idx)),
                    ts |-> parseTimestamp(SubSeq(prefix, 1, tabIdx), now)]
              ELSE [message |-> TrimSpace(From(msg, idx)),
                    ts |-> parseTimestamp(fallbackTime, now)]
       ELSE [message |-> TrimSpace(msg), ts |-> parseTimestamp(fallbackTime, now)]

\* the size of the chunks splitMessage cuts for maxSize: 20 bytes are reserved for
\* the marker, and a chunk is never shorter than 100
EffectiveSizeNoFloor(maxSize) == maxSize - 20

effectiveSize(maxSize) == IF maxSize - 20 < 100 THEN 100 ELSE maxSize - 20

\* the loop of splitMessage from byte offset i with the chunks made so far
RECURSIVE splitLoop(_, _, _, _, _)
splitLoop(message, size, numChunks, i, chunks) ==
  IF i < Len(message)
    THEN LET end == IF i + size > Len(message) THEN Len(message) ELSE i + size
             chunkNum == Len(chunks) + 1
             chunk == <<91, 99, 104, 117, 110, 107, 32>> \o Digits(chunkNum) \o <<47>> \o Digits(numChunks)
                        \o <<93, 32>> \o SubSeq(message, i + 1, end)
         IN splitLoop(message, size, numChunks, i + size, Append(chunks, chunk))
    ELSE chunks

\* splitMessage: the message itself, or its chunks, each prefixed "[chunk k/N] "
splitMessage(message, maxSize) ==
  IF Len(message) <= maxSize
    THEN <<message>>
    ELSE LET size == effectiveSize(maxSize)
             numChunks == (Len(message) + size - 1) \div size
         IN splitLoop(message, size, numChunks, 0, <<>>)

(***************************************************************************)
(* internal/telemetryapi: the receiver.  A record is a JSON string (text)  *)
(* or a JSON object with the fields requestId, version and metrics.        *)
(***************************************************************************)
EventTypePlatformStart == <<112, 108, 97, 116, 102, 111, 114, 109, 46, 115, 116, 97, 114, 116>>
EventTypePlatformRuntimeDone == <<112, 108, 97, 116, 102, 111, 114, 109, 46, 114, 117, 110, 116, 105, 109, 101, 68, 111, 110, 101>>
EventTypePlatformReport == <<112, 108, 97, 116, 102, 111, 114, 109, 46, 114, 101, 112, 111, 114, 116>>
EventTypeFunction == <<102, 117, 110, 99, 116, 105, 111, 110>>
EventTypeExtension == <<101, 120, 116, 101, 110, 115, 105, 111, 110>>

\* the marker with its value in lower case
ownExtensionMarkerLower == <<34, 99, 111, 110, 116, 101, 120, 116, 34, 58, 34, 108, 97, 109, 98, 100, 97, 119, 97, 116, 99, 104, 34>>

ownExtensionMarker == <<34, 99, 111, 110, 116, 101, 120, 116, 34, 58, 34, 76, 97, 109, 98, 100, 97, 87, 97, 116, 99, 104, 34>>

\* a JSON string holding text
StringRecord(text) ==
  [isMap |-> FALSE, text |-> text, hasId |-> FALSE, requestId |-> <<>>, version |-> <<>>,
   hasMetrics |-> FALSE, durationMs |-> 0, initDurationMs |-> 0]

\* a JSON object; requestId is read only if hasId, version "" stands for none
MapRecord(hasId, requestId, version) ==
  [isMap |-> TRUE, text |-> <<>>, hasId |-> hasId, requestId |-> requestId,
   version |-> version, hasMetrics |-> FALSE, durationMs |-> 0, initDurationMs |-> 0]

Quoted(s) == <<34>> \o s \o <<34>>

RECURSIVE JoinComma(_)
JoinComma(fields) ==
  IF fields = <<>> THEN <<>>
  ELSE IF Len(fields) = 1 THEN fields[1]
  ELSE fields[1] \o <<44>> \o JoinComma(Tail(fields))

\* json.Marshal of a record: a string quoted, an object with its keys sorted
formatAsJSON(record) ==
  IF ~record.isMap
    THEN Quoted(record.text)
    ELSE LET metrics == IF record.hasMetrics
                          THEN <<<<34, 109, 101, 116, 114, 105, 99, 115, 34, 58>> \o <<123>> \o <<34, 100, 117, 114, 97, 116, 105, 111, 110, 77, 115, 34, 58>> \o Digits(record.durationMs)
                                   \o <<44>> \o <<34, 105, 110, 105, 116, 68, 117, 114, 97, 116, 105, 111, 110, 77, 115, 34, 58>> \o Digits(record.initDurationMs)
                                   \o <<125>> >>
                          ELSE <<>>
             requestId == IF record.hasId
                            THEN <<<<34, 114, 101, 113, 117, 101, 115, 116, 73, 100, 34, 58>> \o Quoted(record.requestId)>>
                            ELSE <<>>
             version == IF record.version # <<>>
                          THEN <<<<34, 118, 101, 114, 115, 105, 111, 110, 34, 58>> \o Quoted(record.version)>>
                          ELSE <<>>
         IN <<123>> \o JoinComma(metrics \o requestId \o version) \o <<125>>

\* the text formatRecordWithTimestamp starts from: the string, or the object marshalled
RecordText(record) == IF record.isMap THEN formatAsJSON(record) ELSE record.text

\* record["requestId"].(string): the id and whether there is one
\* a requestId read from every map, present or not
RecordRequestIdAny(record) == [ok |-> record.isMap, id |-> record.requestId]

RecordRequestId(record) ==
  IF record.isMap /\ record.hasId THEN [ok |-> TRUE, id |-> record.requestId]
  ELSE [ok |-> FALSE, id |-> <<>>]

formatPlatformStart(record) ==
  LET requestID == RecordRequestId(record).id
      version == IF record.isMap THEN record.version ELSE <<>>
  IN IF record.isMap /\ requestID # <<>> /\ version # <<>>
       THEN <<83, 84, 65, 82, 84, 32, 82, 101, 113, 117, 101, 115, 116, 73, 100, 58, 32>> \o requestID \o <<32, 86, 101, 114, 115, 105, 111, 110, 58, 32>> \o version
       ELSE formatAsJSON(record)

formatPlatformRuntimeDone(record) == formatAsJSON(record)

\* fmt's %.2f of a whole number
Fixed2(n) == Digits(n) \o <<46, 48, 48>>

formatPlatformReport(record) ==
  LET requestID == RecordRequestId(record).id
  IN IF ~record.isMap \/ ~record.hasMetrics \/ requestID = <<>>
       THEN formatAsJSON(record)
       ELSE <<82, 69, 80, 79, 82, 84, 32, 82, 101, 113, 117, 101, 115, 116, 73, 100, 58, 32>> \o requestID \o <<9, 68, 117, 114, 97, 116, 105, 111, 110, 58, 32>> \o Fixed2(record.durationMs)
              \o <<32, 109, 115, 9, 66, 105, 108, 108, 101, 100, 32, 68, 117, 114, 97, 116, 105, 111, 110, 58, 32>> \o Digits(0) \o <<32, 109, 115, 9, 77, 101, 109, 111, 114, 121, 32, 83, 105, 122, 101, 58, 32>> \o Digits(0) \o <<32, 77, 66, 9, 77, 97, 120, 32, 77, 101, 109, 111, 114, 121, 32, 85, 115, 101, 100, 58, 32>> \o Digits(0)
              \o <<32, 77, 66>>
              \o (IF record.initDurationMs > 0
                    THEN <<9, 73, 110, 105, 116, 32, 68, 117, 114, 97, 116, 105, 111, 110, 58, 32>> \o Fixed2(record.initDurationMs) \o <<32, 109, 115>>
                    ELSE <<>>)

\* (?i) folds upper case to lower case
Lower(c) == IF c \in 65..90 THEN c + 32 ELSE c

\* \s of the regexp: tab, newline, form feed, carriage return, space
ReSpace(c) == c \in {9, 10, 12, 13, 32}

\* [a-f0-9-] under (?i)
IsIdChar(c) == Lower(c) \in (97..102) \cup (48..57) \cup {45}

\* the first position at or after pos (1-based) that holds no \s
RECURSIVE SkipSpaces(_, _)
SkipSpaces(s, pos) ==
  IF pos <= Len(s) /\ ReSpace(s[pos]) THEN SkipSpaces(s, pos + 1) ELSE pos

\* the longest run of [a-f0-9-] from pos
RECURSIVE IdRun(_, _)
IdRun(s, pos) ==
  IF pos <= Len(s) /\ IsIdChar(s[pos]) THEN <<s[pos]>> \o IdRun(s, pos + 1) ELSE <<>>

\* extractRequestID: the group of the leftmost match of
\* (?i)RequestId:\s*([a-f0-9-]+), "" if there is no match
extractRequestID(message) ==
  LET key == <<114, 101, 113, 117, 101, 115, 116, 105, 100, 58>>
      hits == {i \in 1..(Len(message) - Len(key) + 1) :
                 /\ [j \in 1..Len(key) |-> Lower(message[i + j - 1])] = key
                 /\ IdRun(message, SkipSpaces(message, i + Len(key))) # <<>>}
  IN IF hits = {} THEN <<>>
     ELSE LET i == CHOOSE h \in hits : \A g \in hits : h <= g
          IN IdRun(message, SkipSpaces(message, i + Len(key)))

\* a buffer.LogEntry with its contents
FullEntry(ts, message, type, requestID) ==
  [Timestamp |-> ts, Message |-> message, Type |-> type, RequestID |-> requestID]

\* the entries of one function or extension message: one, or one per chunk
RecordEntriesNoSplit(ts, message, type, requestID, maxLineSize) ==
  <<FullEntry(ts, message, type, requestID)>>

RecordEntries(ts, message, type, requestID, maxLineSize) ==
  IF maxLineSize > 0 /\ Len(message) > maxLineSize
    THEN LET chunks == splitMessage(message, maxLineSize)
         IN [i \in 1..Len(chunks) |-> FullEntry(ts + (i - 1), chunks[i], type, requestID)]
    ELSE <<FullEntry(ts, message, type, requestID)>>

\* the loop over the events of one request; st is the Server's currentRequestID, the
\* entries collected and runtimeDoneRequestID
RECURSIVE ProcessEvents(_, _, _, _, _)
ProcessEvents(events, st, now, maxLineSize, extract) ==
  IF events = <<>> THEN st
  ELSE
    LET event == Head(events)
        rest == Tail(events)
        rid == RecordRequestId(event.Record)
        ts == parseTimestamp(event.Time, now)
    IN CASE event.Type = EventTypePlatformStart ->
              LET cur == IF rid.ok THEN rid.id ELSE st.currentRequestID
                  entry == FullEntry(ts, formatPlatformStart(event.Record), event.Type, cur)
              IN ProcessEvents(rest, [st EXCEPT !.currentRequestID = cur,
                                                !.entries = Append(@, entry)],
                               now, maxLineSize, extract)
         [] event.Type = EventTypePlatformRuntimeDone ->
              LET entry == FullEntry(ts, formatPlatformRuntimeDone(event.Record), event.Type,
                                     st.currentRequestID)
              IN ProcessEvents(rest, [st EXCEPT !.entries = Append(@, entry),
                                                !.runtimeDoneRequestID =
                                                   IF rid.ok THEN rid.id ELSE @],
                               now, maxLineSize, extract)
         [] event.Type \in {EventTypeFunction, EventTypeExtension} ->
              LET f == formatRecordWithTimestamp(RecordText(event.Record), event.Time, now)
                  requestID == IF extract /\ st.currentRequestID = <<>>
                                 THEN extractRequestID(f.message)
                                 ELSE st.currentRequestID
              IN IF event.Type = EventTypeExtension /\ Contains(f.message, ownExtensionMarker)
                   THEN ProcessEvents(rest, st, now, maxLineSize, extract)
                   ELSE ProcessEvents(rest,
                          [st EXCEPT !.entries =
                             @ \o RecordEntries(f.ts, f.message, event.Type, requestID,
                                                maxLineSize)],
                          now, maxLineSize, extract)
         [] event.Type = EventTypePlatformReport ->
              LET entry == FullEntry(ts, formatPlatformReport(event.Record), event.Type,
                                     st.currentRequestID)
              IN ProcessEvents(rest, [st EXCEPT !.entries = Append(@, entry)],
                               now, maxLineSize, extract)
         [] OTHER -> ProcessEvents(rest, st, now, maxLineSize, extract)

\* one element of the posted JSON array: an object (the event), null or a number
Event(time, type, record) == [json |-> "object", Time |-> time, Type |-> type, Record |-> record]

\* what json.Unmarshal leaves of a null element: the zero TelemetryEvent
ZeroEvent == Event(<<>>, <<>>, StringRecord(<<>>))

NullElem == [ZeroEvent EXCEPT !.json = "null"]

NumberElem == [ZeroEvent EXCEPT !.json = "number"]

\* json.Unmarshal(body, &events): text that is not JSON, and a JSON object, number
\* or string, are errors; null is no event; an array is its elements unless one of
\* them is neither an object nor null
UnmarshalLenient(body) ==
  [err |-> FALSE,
   events |-> IF body.kind = "array"
                THEN [i \in 1..Len(body.elems) |->
                        IF body.elems[i].json = "object" THEN body.elems[i] ELSE ZeroEvent]
                ELSE <<>>]

Unmarshal(body) ==
  IF body.kind = "null" THEN [err |-> FALSE, events |-> <<>>]
  ELSE IF body.kind # "array" THEN [err |-> TRUE, events |-> <<>>]
  ELSE IF \E i \in 1..Len(body.elems) : body.elems[i].json = "number"
    THEN [err |-> TRUE, events |-> <<>>]
    ELSE [err |-> FALSE,
          events |-> [i \in 1..Len(body.elems) |->
                        IF body.elems[i].json = "null" THEN ZeroEvent ELSE body.elems[i]]]

\* the buffer's view of an entry: the lengths its Size() adds up
Project(e) == LogEntry(0, Len(e.Message), Len(e.Type), Len(e.RequestID))

\* Buffer.AddBatch of the entries es
WAddEntries(w, es) ==
  LET nb == AddBatch(w.b, es)
  IN IF w.b.closed
       THEN w
       ELSE [b |-> nb, s |-> Lose(w.s, EvictedSeq(w.b, es, nb))]

\* Server.handleTelemetry for one request on the Server s and the world w: the
\* Server afterwards with the history of the request, and the world; called holds
\* the calls of onRuntimeDone: the id passed and the entries the buffer held then
handleTelemetry(s, w, req) ==
  LET seen == [s EXCEPT !.n = @ + 1, !.req = req, !.pre = w.b, !.preId = s.currentRequestID,
                        !.out = <<>>, !.called = <<>>]
      parsed == Unmarshal(req.body)
      st == ProcessEvents(parsed.events,
                          [currentRequestID |-> s.currentRequestID, entries |-> <<>>,
                           runtimeDoneRequestID |-> <<>>],
                          req.now, s.maxLineSize, s.extractRequestID)
      es == [i \in 1..Len(st.entries) |-> Project(st.entries[i])]
      added == IF Len(es) > 0 THEN WAddEntries(w, es) ELSE w
  IN IF req.method # "POST"
       THEN [s |-> [seen EXCEPT !.status = 405], w |-> w]
     ELSE IF req.body.kind = "unreadable" \/ parsed.err
       THEN [s |-> [seen EXCEPT !.status = 400], w |-> WLog(w)]
     ELSE [s |-> [seen EXCEPT !.status = 200, !.currentRequestID = st.currentRequestID,
                              !.out = st.entries,
                              !.called = IF st.runtimeDoneRequestID # <<>> /\ s.hasCallback
                                           THEN <<[id |-> st.runtimeDoneRequestID,
                                                   found |-> added.b.entries]>>
                                           ELSE <<>>],
           w |-> added]

(***************************************************************************)
(* SpecRecv: the receiver alone, handling one request after the other; the *)
(* runtime-done callback only records that it was called.                  *)
(***************************************************************************)
IdA == <<97, 49>>

IdB == <<98, 50>>

\* a line of m letters
Letters(m) == [i \in 1..m |-> 97 + (i % 26)]

\* the events the host posts
EventChoices ==
  {Event(TimeText(5), EventTypePlatformStart, MapRecord(TRUE, IdA, <<49>>)),
   Event(TimeText(5), EventTypePlatformStart, MapRecord(FALSE, <<>>, <<>>)),
   Event(TimeText(6), EventTypePlatformRuntimeDone, MapRecord(TRUE, IdA, <<>>)),
   Event(<<>>, EventTypePlatformRuntimeDone, MapRecord(FALSE, <<>>, <<>>)),
   Event(TimeText(6), EventTypeFunction, StringRecord(<<97, 98, 99>>)),
   Event(TimeText(6), EventTypeFunction, StringRecord(TimeText(7) \o <<9>> \o <<123, 125>>)),
   Event(TimeText(6), EventTypeFunction, StringRecord(<<82, 101, 113, 117, 101, 115, 116, 73, 100, 58, 32, 98, 50>>)),
   Event(TimeText(6), EventTypeFunction, StringRecord(<<123>> \o ownExtensionMarker \o <<125>>)),
   Event(TimeText(6), EventTypeExtension, StringRecord(<<123>> \o ownExtensionMarker \o <<125>>)),
   Event(TimeText(6), EventTypeExtension, StringRecord(<<101, 120, 116>>)),
   Event(TimeText(6), EventTypeExtension, StringRecord(Letters(101))),
   Event(TimeText(8), EventTypePlatformReport,
         [MapRecord(TRUE, IdA, <<>>) EXCEPT !.hasMetrics = TRUE, !.durationMs = 12,
                                            !.initDurationMs = 3]),
   Event(TimeText(8), <<112, 108, 97, 116, 102, 111, 114, 109, 46, 101, 110, 100>>, MapRecord(TRUE, IdA, <<>>)),
   NullElem, NumberElem}

Bodies ==
  {[kind |-> k, elems |-> <<>>] : k \in {"unreadable", "text", "null", "object"}}
    \cup {[kind |-> "array", elems |-> es] :
            es \in UNION {[1..n -> EventChoices] : n \in 0..MaxEvents}}

Requests ==
  {[method |-> "POST", body |-> b, now |-> 90] : b \in Bodies}
    \cup {[method |-> m, body |-> b, now |-> 90] :
            m \in {"GET", "PUT"},
            b \in {x \in Bodies : x.kind = "text" \/ Len(x.elems) = 1}}

\* the buffer the Server is given, and a Manager that does not run
RecvIdle ==
  /\ cfg \in {[BufferSize |-> 3, BatchSize |-> 1, MaxBatchSizeBytes |-> 0,
               FlushIntervalMs |-> 1, IdleFlushMultiplier |-> 1, logBuffer |-> lb] :
                lb \in BOOLEAN}
  /\ buffer = New(cfg.BufferSize)
  /\ nextId = 1
  /\ dropped = {}
  /\ returned = <<>>
  /\ last = NoCall
  /\ px = PxIdle
  /\ state = StateIdle
  /\ intervalChange = 0
  /\ stopFlush = FALSE
  /\ criticalFlushMu = Free
  /\ invocationDone = NilChan
  /\ chans = [made |-> 0, closed |-> {}]
  /\ ctxDone = FALSE
  /\ ev = EvInit
  /\ fl = FlInit
  /\ hs = [k \in 1..MaxRequests |-> NoHandler]
  /\ host = HostInit
  /\ sink = [k \in 1..MaxRequests |-> NoFate]

RecvInit ==
  /\ RecvIdle
  /\ srv \in {[SrvIdle EXCEPT !.maxLineSize = m, !.extractRequestID = x, !.hasCallback = c] :
                m \in {0, 2}, x \in BOOLEAN, c \in BOOLEAN}

\* the host posts a request and the handler runs to its response
Handle ==
  /\ srv.n < MaxRequests
  /\ \E req \in Requests :
     \E r \in {handleTelemetry(srv, World, req)} :
       /\ srv' = r.s
       /\ Commit(r.w)
  /\ UNCHANGED <<nextId, dropped, returned, last, px, cfg, state, intervalChange,
                 stopFlush, criticalFlushMu, invocationDone, chans, ctxDone, ev, fl, hs,
                 host>>

RecvNext == Handle

SpecRecv == RecvInit /\ [][RecvNext]_vars

(***************************************************************************)
(* SpecDone: the receiver handling requests made of platform.runtimeDone   *)
(* and platform.start events of every shape, among function lines.         *)
(***************************************************************************)
DoneEvents ==
  {Event(TimeText(6), EventTypePlatformRuntimeDone, MapRecord(TRUE, IdA, <<>>)),
   Event(TimeText(6), EventTypePlatformRuntimeDone, MapRecord(TRUE, IdB, <<>>)),
   Event(TimeText(6), EventTypePlatformRuntimeDone, MapRecord(TRUE, <<>>, <<>>)),
   Event(TimeText(6), EventTypePlatformRuntimeDone, MapRecord(FALSE, <<>>, <<>>)),
   Event(TimeText(6), EventTypePlatformRuntimeDone, StringRecord(IdA)),
   Event(TimeText(5), EventTypePlatformStart, MapRecord(TRUE, IdA, <<49>>)),
   Event(TimeText(5), EventTypePlatformStart, MapRecord(TRUE, IdB, <<49>>)),
   Event(TimeText(5), EventTypePlatformStart, MapRecord(TRUE, <<>>, <<>>)),
   Event(TimeText(5), EventTypePlatformStart, MapRecord(FALSE, <<>>, <<>>)),
   Event(TimeText(6), EventTypeFunction, StringRecord(<<97, 98, 99>>)),
   Event(TimeText(6), EventTypeFunction, StringRecord(<<82, 101, 113, 117, 101, 115, 116, 73, 100, 58, 32, 98, 50>>)),
   Event(TimeText(6), EventTypeExtension, StringRecord(<<123>> \o ownExtensionMarker \o <<125>>)),
   NullElem}

DoneBodies ==
  {[kind |-> "array", elems |-> es] : es \in UNION {[1..n -> DoneEvents] : n \in 0..MaxEvents}}

DoneRequests ==
  {[method |-> "POST", body |-> b, now |-> 90] : b \in DoneBodies}
    \cup {[method |-> "GET", body |-> b, now |-> 90] :
            b \in {x \in DoneBodies : Len(x.elems) = 1}}

\* the host posts a request and the handler runs to its response
HandleDone ==
  /\ srv.n < MaxRequests
  /\ \E req \in DoneRequests :
     \E r \in {handleTelemetry(srv, World, req)} :
       /\ srv' = r.s
       /\ Commit(r.w)
  /\ UNCHANGED <<nextId, dropped, returned, last, px, cfg, state, intervalChange,
                 stopFlush, criticalFlushMu, invocationDone, chans, ctxDone, ev, fl, hs,
                 host>>

DoneNext == HandleDone

SpecDone == RecvInit /\ [][DoneNext]_vars

(***************************************************************************)
(* SpecSplit: the receiver handling one request with one function or       *)
(* extension line of up to MaxMsgLen bytes, for several maxLineSize.       *)
(***************************************************************************)
\* values of maxLineSize: no limit, below the floor of the chunk size, around it
\* and above it
SplitSizes == {0, 50, 119, 120, 121, 130, 220}

\* message lengths around the multiples of the chunk sizes
SplitLens == {m \in 0..MaxMsgLen : m % 50 \in {0, 1, 20, 21, 49}}

\* the lines: letters only, or the extension's own marker followed by letters
SplitTexts == {Letters(m) : m \in SplitLens} \cup {ownExtensionMarker \o Letters(m) : m \in SplitLens}

SplitRequests ==
  {[method |-> "POST", now |-> 90,
    body |-> [kind |-> "array", elems |-> <<Event(time, type, StringRecord(text))>>]] :
      time \in {TimeText(6), <<>>}, type \in {EventTypeFunction, EventTypeExtension},
      text \in SplitTexts}

\* the request is on its way; srv.req holds it until the handler takes it
SplitInit ==
  /\ RecvIdle
  /\ srv \in {[SrvIdle EXCEPT !.maxLineSize = m, !.req = r] :
                m \in SplitSizes, r \in SplitRequests}

HandleLine ==
  /\ srv.n = 0
  /\ \E r \in {handleTelemetry(srv, World, srv.req)} :
       /\ srv' = r.s
       /\ Commit(r.w)
  /\ UNCHANGED <<nextId, dropped, returned, last, px, cfg, state, intervalChange,
                 stopFlush, criticalFlushMu, invocationDone, chans, ctxDone, ev, fl, hs,
                 host>>

SplitNext == HandleLine

SpecSplit == SplitInit /\ [][SplitNext]_vars

(***************************************************************************)
(* internal/loki: Batch.  A push request is its sequence of streams, a     *)
(* stream its labels and its [timestamp, line] pairs.                      *)
(***************************************************************************)
\* m.labels: the labels every stream carries
BaseLabels == {<<"source", <<>>>>}

\* strconv.FormatInt(entry.Timestamp * 1000000, 10) and entry.Message
Values(entries) ==
  [i \in 1..Len(entries) |-> <<Digits(entries[i].Timestamp * 1000000), entries[i].Message>>]

toSingleStreamRequest(entries) == <<[Stream |-> BaseLabels, Values |-> Values(entries)]>>

Unknown == <<117, 110, 107, 110, 111, 119, 110>>

\* the group an entry goes to
GroupOf(entry) == IF entry.RequestID = <<>> THEN Unknown ELSE entry.RequestID

\* the request ids in the order of their first appearance
RECURSIVE GroupOrder(_, _)
GroupOrder(entries, order) ==
  IF entries = <<>> THEN order
  ELSE GroupOrder(Tail(entries),
                  IF \E i \in 1..Len(order) : order[i] = GroupOf(Head(entries))
                    THEN order
                    ELSE Append(order, GroupOf(Head(entries))))

toGroupedStreamRequest(entries) ==
  LET order == GroupOrder(entries, <<>>)
      InGroup(reqID, e) == GroupOf(e) = reqID
  IN [g \in 1..Len(order) |->
        [Stream |-> IF order[g] # Unknown
                      THEN BaseLabels \cup {<<"request_id", order[g]>>}
                      ELSE BaseLabels,
         Values |-> Values(SelectSeq(entries, LAMBDA e : InGroup(order[g], e)))]]

\* Batch.ToPushRequest: nil for no entry, else the streams
ToPushRequest(entries, groupByRequestID) ==
  IF Len(entries) = 0 THEN <<>>
  ELSE IF ~groupByRequestID THEN toSingleStreamRequest(entries)
  ELSE toGroupedStreamRequest(entries)

(***************************************************************************)
(* SpecBatch: NewBatch(labels, cfg.ExtractRequestID), Add of the entries   *)
(* of a flush, ToPushRequest.                                              *)
(***************************************************************************)
\* the messages: plain text, objects empty and not, one after a blank
BatchMessages == {<<97, 98, 99>>, <<123, 125>>, <<123, 34, 97, 34, 58, 49, 125>>, <<32, 123, 34, 97, 34, 58, 49, 125>>}

\* the batches: entry i has timestamp i
Batches ==
  UNION {{[i \in 1..n |-> FullEntry(i, ms[i], EventTypeFunction, ids[i])] :
            ms \in [1..n -> BatchMessages], ids \in [1..n -> {<<>>, IdA, IdB}]} :
           n \in 0..MaxBatchLen}

\* the batch filled: last holds its entries and the flag it was made with
BatchInit ==
  /\ buffer = New(1)
  /\ nextId = 1
  /\ dropped = {}
  /\ returned = <<>>
  /\ last \in {[NoCall EXCEPT !.op = "Batch.Add", !.arg = es, !.ok = flag] :
                 es \in Batches, flag \in BOOLEAN}
  /\ px = PxIdle
  /\ MgrIdle

BToPushRequest ==
  /\ last.op = "Batch.Add"
  /\ last' = [last EXCEPT !.op = "ToPushRequest", !.ret = ToPushRequest(last.arg, last.ok)]
  /\ UNCHANGED <<buffer, nextId, dropped, returned, notBuf>>

BatchNext == BToPushRequest

SpecBatch == BatchInit /\ [][BatchNext]_vars

(***************************************************************************)
(* SpecCrit: Manager.criticalFlush called on a buffer holding N entries,   *)
(* with or without the logger writing to the buffer, while another task    *)
(* may add entries.  last records the call: pre the buffer when it locked,  *)
(* ret the batches handed to PushCritical, ok whether every push returned  *)
(* nil, n the entries added to the buffer since the call started.          *)
(***************************************************************************)
CritConfigs ==
  {[BufferSize |-> MaxIds + 1, BatchSize |-> bs, MaxBatchSizeBytes |-> mb,
    FlushIntervalMs |-> 2, IdleFlushMultiplier |-> 3, logBuffer |-> lb] :
     bs \in 1..3, mb \in {0, 39, 100}, lb \in BOOLEAN}

\* the entries added between the buffers b and nb of one logger or Add call
AddedBy(b, nb) == IF nb.entries = b.entries THEN 0 ELSE 1

CritInit ==
  /\ cfg \in CritConfigs
  /\ \E lens \in LenSeqs(MaxIds) :
       /\ buffer = AddLoop(New(cfg.BufferSize), Stamp(1, lens))
       /\ last = [NoCall EXCEPT !.op = "criticalFlush", !.ok = TRUE,
                                !.pre = AddLoop(New(cfg.BufferSize), Stamp(1, lens))]
  /\ hs = [k \in 1..MaxRequests |-> IF k = 1 THEN [NoHandler EXCEPT !.pc = "cflock"]
                                              ELSE NoHandler]
  /\ nextId = 1
  /\ dropped = {}
  /\ returned = <<>>
  /\ px = PxIdle
  /\ state = StateIdle
  /\ intervalChange = 0
  /\ stopFlush = FALSE
  /\ criticalFlushMu = Free
  /\ invocationDone = NilChan
  /\ chans = [made |-> 0, closed |-> {}]
  /\ ctxDone = FALSE
  /\ ev = EvInit
  /\ fl = FlInit
  /\ host = HostInit
  /\ sink = [k \in 1..MaxRequests |-> NoFate]
  /\ srv = SrvIdle

\* criticalFlush: Lock; remaining := m.buffer.Len(); 0: return; log; first flushBatch
CrLock ==
  /\ hs[1].pc = "cflock"
  /\ CanLock(criticalFlushMu)
  /\ \E w \in {WLog(World)} :
     \E l \in {CritLoop(w, BufLen(buffer))} :
        IF BufLen(buffer) = 0 \/ Len(l.batch) = 0
          THEN /\ hs' = [hs EXCEPT ![1].pc = "done"]
               /\ Commit(IF BufLen(buffer) = 0 THEN World ELSE l.w)
               /\ last' = [last EXCEPT !.pre = buffer,
                                        !.n = IF BufLen(buffer) = 0 THEN @
                                              ELSE @ + AddedBy(buffer, w.b)]
               /\ UNCHANGED criticalFlushMu
          ELSE /\ criticalFlushMu' = 1
               /\ Commit(l.w)
               /\ last' = [last EXCEPT !.pre = buffer, !.n = @ + AddedBy(buffer, w.b)]
               /\ hs' = [hs EXCEPT ![1] = [@ EXCEPT !.pc = "cfpush", !.batch = l.batch,
                                                     !.remaining = l.remaining]]
  /\ UNCHANGED <<nextId, dropped, returned, px, cfg, state, intervalChange, stopFlush,
                 invocationDone, chans, ctxDone, ev, fl, host, srv>>

\* PushCritical returns: an error is logged and breaks; else the loop goes on;
\* when the loop is over the deferred Unlock runs
CrPush ==
  /\ hs[1].pc = "cfpush"
  /\ \E ok \in BOOLEAN :
     \E w \in {WLogIf(~ok, World)} :
     \E l \in {CritLoop(w, hs[1].remaining)} :
        /\ last' = [last EXCEPT !.ret = Append(@, hs[1].batch), !.ok = @ /\ ok,
                                !.n = @ + AddedBy(buffer, w.b)]
        /\ IF ok /\ Len(l.batch) > 0
             THEN /\ Commit(l.w)
                  /\ hs' = [hs EXCEPT ![1] = [@ EXCEPT !.batch = l.batch,
                                                        !.remaining = l.remaining]]
                  /\ UNCHANGED criticalFlushMu
             ELSE /\ Commit(w)
                  /\ criticalFlushMu' = Free
                  /\ hs' = [hs EXCEPT ![1] = [@ EXCEPT !.pc = "done", !.batch = <<>>,
                                                        !.failed = ~ok]]
  /\ UNCHANGED <<nextId, dropped, returned, px, cfg, state, intervalChange, stopFlush,
                 invocationDone, chans, ctxDone, ev, fl, host, srv>>

\* another task adds an entry to the buffer while criticalFlush runs
CrAdd ==
  /\ hs[1].pc \in {"cflock", "cfpush"}
  /\ last.n < MaxCap
  /\ \E m \in MsgLens : Commit(WAdd(World, m, TypeLen))
  /\ last' = [last EXCEPT !.n = @ + 1]
  /\ UNCHANGED <<nextId, dropped, returned, px, cfg, state, intervalChange, stopFlush,
                 criticalFlushMu, invocationDone, chans, ctxDone, ev, fl, hs, host, srv>>

CritNext ==
  \/ CrLock
  \/ CrPush
  \/ CrAdd

SpecCrit == CritInit /\ [][CritNext]_vars

\* criticalFlush runs on its goroutine until it returns; PushCritical returns
\* after at most MaxRetries + 1 attempts
FairCrit == SpecCrit /\ WF_vars(CrLock) /\ WF_vars(CrPush)

(***************************************************************************)
(* SpecBuf: a buffer of any capacity 1..MaxCap under arbitrary calls.      *)
(* Every Buffer method runs under b.mu, so each call is one step.          *)
(***************************************************************************)
BufInit ==
  /\ buffer \in {New(c) : c \in 1..MaxCap}
  /\ nextId = 1
  /\ dropped = {}
  /\ returned = <<>>
  /\ last = NoCall

BufInitOnly == BufInit /\ px = PxIdle /\ MgrIdle

BAdd ==
  \E m \in MsgLens :
    /\ nextId <= MaxIds
    /\ LET e == LogEntry(nextId, m, TypeLen, 0)
           r == Add(buffer, e)
       IN /\ buffer' = r.b
          /\ nextId' = IF buffer.closed THEN nextId ELSE nextId + 1
          /\ dropped' = IF buffer.closed THEN dropped ELSE dropped \cup Evicted(buffer, <<e>>, r.b)
          /\ last' = [NoCall EXCEPT !.op = "Add", !.pre = buffer, !.arg = <<e>>, !.ok = r.ret]
    /\ UNCHANGED <<returned, notBuf>>

BAddBatch ==
  \E lens \in LenSeqs(MaxBatchLen) :
    /\ nextId + Len(lens) <= MaxIds + 1
    /\ LET es == Stamp(nextId, lens)
           nb == AddBatch(buffer, es)
       IN /\ buffer' = nb
          /\ nextId' = IF buffer.closed THEN nextId ELSE nextId + Len(lens)
          /\ dropped' = IF buffer.closed THEN dropped ELSE dropped \cup Evicted(buffer, es, nb)
          /\ last' = [NoCall EXCEPT !.op = "AddBatch", !.pre = buffer, !.arg = es]
    /\ UNCHANGED <<returned, notBuf>>

BFlush ==
  \E n \in FlushCounts :
    LET r == Flush(buffer, n)
    IN /\ buffer' = r.b
       /\ returned' = returned \o IdSeq(r.ret)
       /\ last' = [NoCall EXCEPT !.op = "Flush", !.pre = buffer, !.n = n, !.ret = r.ret]
       /\ UNCHANGED <<nextId, dropped, notBuf>>

BFlushBySize ==
  \E n \in FlushCounts, mb \in ByteCaps :
    LET r == FlushBySize(buffer, n, mb)
    IN /\ buffer' = r.b
       /\ returned' = returned \o IdSeq(r.ret)
       /\ last' = [NoCall EXCEPT !.op = "FlushBySize", !.pre = buffer, !.n = n, !.bytes = mb,
                                 !.ret = r.ret]
       /\ UNCHANGED <<nextId, dropped, notBuf>>

BDrain ==
  LET r == Drain(buffer)
  IN /\ buffer' = r.b
     /\ returned' = returned \o IdSeq(r.ret)
     /\ last' = [NoCall EXCEPT !.op = "Drain", !.pre = buffer, !.ret = r.ret]
     /\ UNCHANGED <<nextId, dropped, notBuf>>

BSignalReady ==
  /\ buffer' = SignalReady(buffer)
  /\ last' = [NoCall EXCEPT !.op = "SignalReady", !.pre = buffer]
  /\ UNCHANGED <<nextId, dropped, returned, notBuf>>

BReadyRecv ==
  /\ buffer.ready = 1
  /\ buffer' = ReadyRecv(buffer)
  /\ last' = [NoCall EXCEPT !.op = "ReadyRecv", !.pre = buffer]
  /\ UNCHANGED <<nextId, dropped, returned, notBuf>>

BufNext ==
  \/ BAdd
  \/ BAddBatch
  \/ BFlush
  \/ BFlushBySize
  \/ BDrain
  \/ BSignalReady
  \/ BReadyRecv

SpecBuf == BufInitOnly /\ [][BufNext]_vars

(***************************************************************************)
(* Claims about the Buffer (SpecBuf).                                      *)
(***************************************************************************)
StrictlyIncreasing(s) == \A i, j \in 1..Len(s) : i < j => s[i] < s[j]

SeqRange(s) == {s[i] : i \in 1..Len(s)}

\* C6: in every reachable state of a buffer of capacity >= 1 the length lies in
\* 0..capacity and the byte counter equals the sum of Size() over the held entries.
C6_LenAndByteSize ==
  /\ buffer.maxSize >= 1
  /\ 0 <= BufLen(buffer)
  /\ BufLen(buffer) <= buffer.maxSize
  /\ ByteSize(buffer) = SumSizes(buffer.entries)

\* an overflow has dropped an entry of non-zero message length, a flush has returned
\* entries, and the buffer is full again
C6_Witness ==
  /\ dropped # {}
  /\ Len(returned) > 0
  /\ BufLen(buffer) = buffer.maxSize
  /\ \E i \in 1..BufLen(buffer) : buffer.entries[i].Message > 0
  /\ last.op \in {"Add", "AddBatch"}
  /\ BufLen(last.pre) = last.pre.maxSize

\* C7: everything returned by Flush, FlushBySize and Drain, in call order, is a
\* subsequence of the accepted entries in insertion order (identities are handed out
\* in insertion order, so: strictly increasing), and every accepted entry is exactly
\* one of returned, still buffered, or dropped by overflow.
C7_FifoNoDuplicates ==
  /\ StrictlyIncreasing(returned)
  /\ StrictlyIncreasing(IdSeq(buffer.entries))
  /\ SeqRange(returned) \cup Ids(buffer.entries) \cup dropped = 1..(nextId - 1)
  /\ SeqRange(returned) \cap Ids(buffer.entries) = {}
  /\ SeqRange(returned) \cap dropped = {}
  /\ Ids(buffer.entries) \cap dropped = {}
  /\ \A i \in SeqRange(returned), j \in Ids(buffer.entries) : i < j

\* entries were returned by two different calls, one was dropped, one is still held
C7_Witness ==
  /\ Len(returned) >= 2
  /\ last.op \in {"Flush", "FlushBySize", "Drain"}
  /\ Len(last.ret) >= 1
  /\ Len(last.ret) < Len(returned)
  /\ dropped # {}

\* C8: after Add or AddBatch of k entries on an open buffer the contents are the last
\* min(capacity, old length + k) elements of old contents followed by the new entries,
\* and Add returns true exactly when the length equals the capacity afterwards.
C8_AddKeepsNewest ==
  (last.op \in {"Add", "AddBatch"} /\ ~last.pre.closed) =>
    LET all == last.pre.entries \o last.arg
    IN /\ buffer.entries = LastN(all, Min(buffer.maxSize, Len(all)))
       /\ (last.op = "Add" => (last.ok <=> BufLen(buffer) = buffer.maxSize))
       /\ (last.arg # <<>> => buffer.entries[BufLen(buffer)] = last.arg[Len(last.arg)])

\* an AddBatch of two entries overflowed a non-empty open buffer
C8_Witness ==
  /\ last.op = "AddBatch"
  /\ ~last.pre.closed
  /\ Len(last.arg) = 2
  /\ BufLen(last.pre) >= 1
  /\ BufLen(last.pre) + 2 > buffer.maxSize

\* C9: Drain returns every remaining entry in order and closes the buffer for good:
\* a closed buffer stays closed and empty with byte size 0, Add on it returns false,
\* Flush, FlushBySize and a further Drain return empty.
C9_DrainCloses ==
  /\ (last.op = "Drain" => last.ret = last.pre.entries /\ buffer.closed)
  /\ (buffer.closed => BufLen(buffer) = 0 /\ ByteSize(buffer) = 0)
  /\ (last.pre.closed =>
        /\ buffer.closed
        /\ buffer.entries = <<>>
        /\ (last.op = "Add" => ~last.ok)
        /\ (last.op \in {"Flush", "FlushBySize", "Drain"} => last.ret = <<>>))

\* a Drain returned entries and a later Add hit the closed buffer
C9_Witness ==
  /\ last.op = "Add"
  /\ last.pre.closed
  /\ Len(returned) > 0
  /\ nextId > Len(returned) + Cardinality(dropped)

(***************************************************************************)
(* SpecPush: one Push or PushCritical call against a sink answering        *)
(* anything, with any retry budgets 0..MaxRetry.                           *)
(***************************************************************************)
PushInitOnly ==
  /\ PushInit
  /\ buffer = New(1)
  /\ nextId = 1
  /\ dropped = {}
  /\ returned = <<>>
  /\ last = NoCall
  /\ MgrIdle

SpecPush == PushInitOnly /\ [][PushNext]_vars

(***************************************************************************)
(* Claims about the transport (SpecPush).                                  *)
(***************************************************************************)
\* the classes of a response as the claim words them
Is2xx(r) == r # NetErr /\ r >= 200 /\ r <= 299

IsTransient(r) == r = NetErr \/ r = 429 \/ r >= 500

\* regular_retries for Push, critical_retries for PushCritical
Budget(p) == IF p.isCritical THEN p.criticalRetries ELSE p.maxRetries

\* what the response sequence alone determines for a call that made attempts
ByResponses(p) ==
  LET n == Len(p.responses)
      lastR == p.responses[n]
  IN /\ n >= 1
     /\ n <= 1 + Budget(p)
     /\ \A i \in 1..(n - 1) : IsTransient(p.responses[i])
     /\ Is2xx(lastR) => p.result = [kind |-> "ok", n |-> 0]
     /\ (~Is2xx(lastR) /\ ~IsTransient(lastR)) => p.result = [kind |-> "status", n |-> lastR]
     /\ IsTransient(lastR) =>
          /\ n = 1 + Budget(p)
          /\ p.result = [kind |-> "exhausted", n |-> Budget(p)]

\* C10 as stated: for a non-empty bundle the attempts and the result of a finished
\* Push/PushCritical are determined by the sink's responses alone: stop at the first
\* 2xx, stop at the first status that is neither 2xx, 429 nor >= 500, otherwise go on
\* to exactly 1 + retries attempts and fail naming the budget.
C10_Original ==
  (px.pc = "done" /\ px.bundle = "entries") => ByResponses(px)

\* C10 amended: the same, unless the context was cancelled during the call; a call
\* that observes the cancellation in a backoff wait returns the context's error after
\* at least one and at most `retries` attempts, all of them transient failures.
C10_AttemptsAndResult ==
  (px.pc = "done" /\ px.bundle = "entries") =>
    IF px.result.kind = "ctx"
      THEN /\ px.ctxDone
           /\ Len(px.responses) >= 1
           /\ Len(px.responses) <= Budget(px)
           /\ \A i \in 1..Len(px.responses) : IsTransient(px.responses[i])
      ELSE ByResponses(px)

\* the payload of a call: the marshalled request, gzip-compressed or raw
Payload(p) == IF p.contentEncoding = "gzip" THEN Gzip(p.jsonBody) ELSE p.jsonBody

\* C11: within one Push/PushCritical call the body every attempt hands to the
\* transport holds the same bytes as the body of attempt 0, the whole payload (raw
\* or gzip-compressed), however much of an earlier body the transport read
C11_SameBodyEveryAttempt ==
  /\ \A i \in 1..Len(px.sent) : px.sent[i] = px.sent[1]
  /\ Len(px.sent) > 0 => px.sent[1] = Payload(px)
  /\ px.contentEncoding = "gzip" <=>
       (px.pc \notin {"idle", "call"} /\ px.bundle \notin {"nil", "nostreams"}
          /\ px.enableGzip /\ Len(px.jsonBody) > px.compressionThreshold)

\* a third attempt of a gzip-compressed push was made after the first body was read
\* in part and the second not at all
C11_Witness ==
  /\ Len(px.sent) = 3
  /\ px.contentEncoding = "gzip"
  /\ px.read[1] = 1
  /\ px.read[2] = 0
  /\ px.sent[3] = Gzip(px.jsonBody)

\* a critical push with a budget different from the regular one used it up
C10_Witness ==
  /\ px.pc = "done"
  /\ px.bundle = "entries"
  /\ px.isCritical
  /\ px.criticalRetries > px.maxRetries
  /\ px.result = [kind |-> "exhausted", n |-> px.criticalRetries]
  /\ Len(px.responses) = 1 + px.criticalRetries
  /\ ~px.ctxDone

(***************************************************************************)
(* Claims about the telemetry receiver (SpecRecv).                         *)
(***************************************************************************)
\* the last request handled
Handled == srv.n > 0

\* a body that is not a JSON array of events
NotAnArray(body) ==
  \/ body.kind # "array"
  \/ \E i \in 1..Len(body.elems) : body.elems[i].json = "number"

\* a body that cannot be read, is not JSON, or is JSON other than null and other than
\* an array of objects and nulls
Malformed(body) ==
  \/ body.kind \in {"unreadable", "text", "object"}
  \/ body.kind = "array" /\ \E i \in 1..Len(body.elems) : body.elems[i].json = "number"

\* the buffer after the logger's one line was added to b and the signal raised
WithLogLine(b) == SignalReady(Add(b, LogEntry(0, LogMsgLen, ExtTypeLen, 0)).b)

\* C14 as stated: 405 to every non-POST request, 400 to every body that is not a
\* JSON array of events, in both cases the buffer and the current request id are
\* unchanged and the callback is not invoked; every other request is answered 200
C14_Original ==
  Handled =>
    /\ srv.req.method # "POST" => srv.status = 405
    /\ srv.req.method = "POST" /\ NotAnArray(srv.req.body) => srv.status = 400
    /\ srv.status \in {400, 405} =>
         /\ buffer = srv.pre
         /\ srv.currentRequestID = srv.preId
         /\ srv.called = <<>>
    /\ srv.req.method = "POST" /\ ~NotAnArray(srv.req.body) => srv.status = 200

\* C14, amended: 405 to every non-POST request; 400 to every POST whose body cannot
\* be read or is malformed (a body null is accepted as no event); in both cases no
\* entry of the request is added, the current request id is unchanged and the
\* callback is not invoked, and the buffer is unchanged except for the logger's own
\* line on a 400 when the logger writes to the buffer; every other POST is
\* answered 200, also when it yields no entry
C14_RejectedRequests ==
  Handled =>
    /\ srv.req.method # "POST" => srv.status = 405 /\ buffer = srv.pre
    /\ srv.req.method = "POST" /\ Malformed(srv.req.body) =>
         /\ srv.status = 400
         /\ buffer = IF cfg.logBuffer THEN WithLogLine(srv.pre) ELSE srv.pre
    /\ srv.status \in {400, 405} =>
         /\ srv.out = <<>>
         /\ srv.currentRequestID = srv.preId
         /\ srv.called = <<>>
    /\ srv.req.method = "POST" /\ ~Malformed(srv.req.body) =>
         /\ srv.status = 200
         /\ srv.out = <<>> => buffer = srv.pre

\* a request with a number in its array was answered 400 while the buffer held
\* entries and a request id was current, and the logger's line reached the buffer
C14_Witness ==
  /\ srv.n = 2
  /\ srv.status = 400
  /\ srv.req.body.kind = "array"
  /\ srv.preId = IdA
  /\ Len(srv.pre.entries) > 0
  /\ cfg.logBuffer
  /\ buffer # srv.pre

(***************************************************************************)
(* Claims about Manager.shutdown (SpecShutdown).                           *)
(***************************************************************************)
\* the batches the tasks hold for a push
HeldBatches == <<ev.batch, fl.batch>> \o [k \in 1..MaxRequests |-> hs[k].batch]

\* C15: shutdown closes stopFlush, then shuts the receiver down and waits, then
\* drains the buffer, once; it calls PushCritical once with all the drained entries
\* in their order iff there are any, and returns nil whatever that push returns;
\* from the Drain on the buffer takes no entry, so that no later push carries one
C15_ShutdownSequence ==
  [][/\ ev.pc = "shutdown" /\ ev'.pc # ev.pc =>
          /\ ev'.pc = "srvdown"
          /\ stopFlush'
          /\ ~host'.serverDown
          /\ ~buffer'.closed
     /\ ev.pc = "srvdown" /\ ev'.pc # ev.pc =>
          /\ ev'.pc = "drain"
          /\ stopFlush
          /\ host'.serverDown
          /\ ~buffer'.closed
     /\ ev.pc = "drain" /\ ev'.pc # ev.pc =>
          LET drained == IF cfg.logBuffer THEN WithLogLine(buffer).entries
                                          ELSE buffer.entries
          IN /\ stopFlush /\ host.serverDown /\ ~buffer.closed
             /\ buffer'.closed
             /\ buffer'.entries = <<>>
             /\ IF drained # <<>>
                  THEN ev'.pc = "finalpush" /\ ev'.batch = drained
                  ELSE ev'.pc = "returned" /\ ev'.err = "" /\ ev'.pushed = "none"
     /\ ev.pc = "finalpush" /\ ev'.pc # ev.pc =>
          /\ ev'.pc = "returned"
          /\ ev'.err = ""
          /\ ev'.pushed \in {"ok", "failed"}
     /\ buffer'.closed # buffer.closed => ev.pc = "drain"
     /\ buffer.closed =>
          /\ buffer'.entries = <<>>
          /\ \A i \in 1..Len(HeldBatches) :
               Len(HeldBatches'[i]) = Len(HeldBatches[i]) \/ HeldBatches'[i] = <<>>
     /\ ev'.pushed # ev.pushed => ev.pc = "finalpush"]_vars

\* shutdown returned nil after its push of two drained entries failed, and a
\* handler offered its entries to the buffer after the Drain
C15_Witness ==
  /\ ev.pc = "returned"
  /\ ev.err = ""
  /\ ev.pushed = "failed"
  /\ buffer.closed
  /\ buffer.entries = <<>>
  /\ \E k \in 1..MaxRequests : hs[k].sawClosed /\ hs[k].n > 0

\* shutdown found the buffer empty and returned without a push
C15_WitnessEmpty ==
  /\ ev.pc = "returned"
  /\ ev.err = ""
  /\ ev.pushed = "none"
  /\ buffer.closed

(***************************************************************************)
(* Claims about Flush, FlushBySize and the ready signal (SpecBuf).         *)
(***************************************************************************)
\* the first k entries of es are at most n and at most mb bytes
PrefixFits(es, k, n, mb) == k <= n /\ SumSizes(SubSeq(es, 1, k)) <= mb

\* the length of the longest such prefix
LongestPrefix(es, n, mb) ==
  CHOOSE k \in 0..Len(es) :
    /\ PrefixFits(es, k, n, mb)
    /\ \A j \in 0..Len(es) : PrefixFits(es, j, n, mb) => j <= k

HeadExceeds(es, mb) == Len(es) > 0 /\ Size(es[1]) > mb

\* the call last removed and returned the first k entries and nothing else changed
TookPrefix(k) ==
  /\ last.ret = SubSeq(last.pre.entries, 1, k)
  /\ buffer = [last.pre EXCEPT !.entries = SubSeq(@, k + 1, Len(@)),
                               !.byteSize = @ - SumSizes(last.ret)]

\* C16 as stated: FlushBySize takes the longest prefix within both limits, except
\* that it takes exactly the head entry when that alone exceeds bytes_max
C16_Original ==
  last.op = "FlushBySize" =>
    TookPrefix(IF HeadExceeds(last.pre.entries, last.bytes)
                 THEN 1
                 ELSE LongestPrefix(last.pre.entries, last.n, last.bytes))

\* C16, amended: FlushBySize(n_max, bytes_max) takes the longest prefix within both
\* limits, except that with n_max >= 1 it takes exactly the head entry when that
\* alone exceeds bytes_max (with n_max = 0 it takes nothing); so it takes at least
\* one entry from a non-empty buffer when n_max >= 1, and more than bytes_max only
\* in a batch of one entry
C16_FlushBySizePrefix ==
  last.op = "FlushBySize" =>
    /\ TookPrefix(IF last.n >= 1 /\ HeadExceeds(last.pre.entries, last.bytes)
                    THEN 1
                    ELSE LongestPrefix(last.pre.entries, last.n, last.bytes))
    /\ Len(last.pre.entries) > 0 /\ last.n >= 1 => Len(last.ret) >= 1
    /\ SumSizes(last.ret) > last.bytes => Len(last.ret) = 1

\* of two entries that fit the count the byte limit let only the first through,
\* which alone does not exceed it
C16_Witness ==
  /\ last.op = "FlushBySize"
  /\ Len(last.pre.entries) = 2
  /\ last.n >= 2
  /\ ~HeadExceeds(last.pre.entries, last.bytes)
  /\ Len(last.ret) = 1
  /\ Len(buffer.entries) = 1

\* C17: Flush(n) removes and returns the first min(n, Len()) entries in order, the
\* rest stays as it was and ByteSize() goes down by the sizes returned; on an empty
\* buffer it returns nothing and changes nothing
C17_FlushPrefix ==
  last.op = "Flush" =>
    /\ TookPrefix(Min(last.n, Len(last.pre.entries)))
    /\ ByteSize(buffer) = ByteSize(last.pre) - SumSizes(last.ret)
    /\ last.pre.entries = <<>> => last.ret = <<>> /\ buffer = last.pre

\* Flush(1) took the first of two entries
C17_Witness ==
  /\ last.op = "Flush"
  /\ last.n = 1
  /\ Len(last.pre.entries) = 2
  /\ last.ret = <<last.pre.entries[1]>>
  /\ buffer.entries = <<last.pre.entries[2]>>
  /\ ByteSize(buffer) < ByteSize(last.pre)

\* raising or consuming an edge changes nothing of the buffer but the slot
OnlyTheSlot == buffer = [last.pre EXCEPT !.ready = buffer.ready]

\* the single slot: at most one edge pends, a raise is always possible, a receive
\* takes the pending edge and there is none to take without a raise since
ReadySlot ==
  /\ buffer.ready \in {0, 1}
  /\ ENABLED BSignalReady
  /\ last.op = "SignalReady" => buffer.ready = 1 /\ OnlyTheSlot
  /\ last.op = "ReadyRecv" => last.pre.ready = 1 /\ buffer.ready = 0 /\ OnlyTheSlot
  /\ buffer.ready = 0 => ~ENABLED BReadyRecv

\* C18 as stated: every SignalReady and every AddBatch leaves exactly one edge
C18_Original ==
  /\ ReadySlot
  /\ last.op = "AddBatch" => buffer.ready = 1

\* C18, amended: SignalReady and AddBatch never block; SignalReady, and AddBatch on
\* a buffer that is not closed, leave exactly one pending edge however many were
\* raised before (AddBatch on a closed buffer raises none); a consumer receives at
\* most one edge per raise; raising and consuming leave the entries as they are
C18_SingleSlot ==
  /\ ReadySlot
  /\ last.op = "AddBatch" =>
       /\ buffer.ready = (IF last.pre.closed THEN last.pre.ready ELSE 1)
       /\ buffer.entries = AddLoop(last.pre, IF last.pre.closed THEN <<>> ELSE last.arg).entries

\* an edge was already pending when AddBatch raised another on a buffer with room
C18_Witness ==
  /\ last.op = "AddBatch"
  /\ last.pre.ready = 1
  /\ ~last.pre.closed
  /\ Len(last.arg) > 0
  /\ buffer.ready = 1

(***************************************************************************)
(* Claims about the splitting of long lines (SpecSplit).                   *)
(***************************************************************************)
\* the one event of the request handled, its line as formatted and its timestamp
LineEvent == srv.req.body.elems[1]

Line == formatRecordWithTimestamp(RecordText(LineEvent.Record), LineEvent.Time, srv.req.now)

\* the line is a log of this extension, which the receiver drops
OwnLine == LineEvent.Type = EventTypeExtension /\ Contains(Line.message, ownExtensionMarker)

Max(a, b) == IF a > b THEN a ELSE b

ChunkPrefix(k, n) == <<91, 99, 104, 117, 110, 107, 32>> \o Digits(k) \o <<47>> \o Digits(n) \o <<93, 32>>

\* the entries the claim asks for: for m > L > 0 the ceil(m / max(100, L - 20))
\* chunks, prefixed and stamped base + (k - 1); else the line itself
ExpectedLines ==
  LET m == Len(Line.message)
      L == srv.maxLineSize
      size == Max(100, L - 20)
      N == (m + size - 1) \div size
  IN IF L > 0 /\ m > L
       THEN [k \in 1..N |->
               FullEntry(Line.ts + (k - 1),
                         ChunkPrefix(k, N)
                           \o SubSeq(Line.message, (k - 1) * size + 1, Min(k * size, m)),
                         LineEvent.Type, <<>>)]
       ELSE <<FullEntry(Line.ts, Line.message, LineEvent.Type, <<>>)>>

\* C19 as stated: every function or extension line yields the chunks, or itself
C19_Original == Handled => srv.out = ExpectedLines

\* C19, amended: a function or extension line that the receiver does not drop as
\* the extension's own log yields, for its formatted length m > L > 0, exactly
\* ceil(m / max(100, L - 20)) entries, the k-th of N prefixed "[chunk k/N] " with
\* timestamp base + (k - 1), in order; for m <= L or L = 0 exactly one unprefixed
\* entry; an extension line holding the extension's own marker yields no entry
C19_SplitLaw ==
  Handled => srv.out = (IF OwnLine THEN <<>> ELSE ExpectedLines)

\* a line of 301 bytes under a limit of 120 came out as four chunks of 100, 100,
\* 100 and 1 bytes
C19_Witness ==
  /\ Handled
  /\ srv.maxLineSize = 120
  /\ Len(Line.message) = 301
  /\ Len(srv.out) = 4
  /\ srv.out[4].Message = ChunkPrefix(4, 4) \o <<Line.message[301]>>
  /\ srv.out[4].Timestamp = srv.out[1].Timestamp + 3

(***************************************************************************)
(* Claims about the lines of a push request (SpecBatch).                   *)
(***************************************************************************)
StartsWith(s, p) == Len(s) >= Len(p) /\ SubSeq(s, 1, Len(p)) = p

\* "request_id":"<id>"
IdField(id) == <<34, 114, 101, 113, 117, 101, 115, 116, 95, 105, 100, 34, 58, 34>> \o id \o <<34>>

\* the line the injection law asks for the entry e: '[request_id=<id>] ' and the
\* message, or for a message that starts with '{' after leading blanks the brace,
\* the field, a comma iff the object was not empty, and the rest of the object
LawfulLine(line, e) ==
  LET body == TrimLeft(e.Message)
      rest == TrimLeft(From(body, 1))
  IN IF StartsWith(body, <<123>>)
       THEN /\ StartsWith(line, <<123>> \o IdField(e.RequestID))
            /\ StartsWith(rest, <<125>>) <=>
                 ~StartsWith(From(line, 1 + Len(IdField(e.RequestID))), <<44>>)
       ELSE line = <<91, 114, 101, 113, 117, 101, 115, 116, 95, 105, 100, 61>> \o e.RequestID \o <<93, 32>> \o e.Message

\* the [timestamp, line] pairs of all streams of the request
AllValues == Concat([g \in 1..Len(last.ret) |-> last.ret[g].Values])

\* C20: with injection enabled (the flag NewBatch is given) the line of an entry
\* with a request id obeys the injection law; the line of an entry without one, and
\* every line when injection is disabled, is the message unmodified
C20_InjectionLaw ==
  last.op = "ToPushRequest" =>
    \A i \in 1..Len(last.arg) :
      \E v \in 1..Len(AllValues) :
        /\ AllValues[v][1] = Digits(last.arg[i].Timestamp * 1000000)
        /\ IF last.ok /\ last.arg[i].RequestID # <<>>
             THEN LawfulLine(AllValues[v][2], last.arg[i])
             ELSE AllValues[v][2] = last.arg[i].Message

\* C21: the request built from a batch with entries has exactly one stream, with
\* the coordinator's labels and no request_id label, and its values are the
\* entries' [timestamp * 10^6 in decimal, line] pairs in the order of the batch,
\* whatever the request ids and the flag
C21_SingleStream ==
  last.op = "ToPushRequest" /\ Len(last.arg) > 0 =>
    /\ Len(last.ret) = 1
    /\ \A g \in 1..Len(last.ret) :
         /\ last.ret[g].Stream = BaseLabels
         /\ \A l \in last.ret[g].Stream : l[1] # "request_id"
    /\ Len(AllValues) = Len(last.arg)
    /\ \A i \in 1..Len(last.arg) :
         AllValues[i][1] = Digits(last.arg[i].Timestamp * 1000000)

(***************************************************************************)
(* Claims about the extension's own logs (SpecRecv).                       *)
(***************************************************************************)
\* the self-marker substring
SelfMarker == <<34, 99, 111, 110, 116, 101, 120, 116, 34, 58, 34, 76, 97, 109, 98, 100, 97, 87, 97, 116, 99, 104, 34>>

\* the events of the request handled that are JSON objects
PostedEvents == SelectSeq(srv.req.body.elems, LAMBDA e : e.json = "object")

\* the message of a function or extension event as normalised
Normalised(e) == formatRecordWithTimestamp(RecordText(e.Record), e.Time, srv.req.now).message

Marked(e) == Contains(Normalised(e), SelfMarker)

\* the number of positions of the sequence s that satisfy Test
Count(s, Test(_)) == Cardinality({i \in 1..Len(s) : Test(s[i])})

\* the request handled is one marked and one unmarked extension event
OneMarkedOneUnmarked ==
  /\ srv.status = 200
  /\ Len(srv.req.body.elems) = 2
  /\ \A i \in 1..2 : /\ srv.req.body.elems[i].json = "object"
                     /\ srv.req.body.elems[i].Type = EventTypeExtension
  /\ \E i, j \in 1..2 : Marked(srv.req.body.elems[i]) /\ ~Marked(srv.req.body.elems[j])

\* no extension entry of the request carries the marker, every unmarked extension
\* event and every function event has its entries in the batch
MarkedDropped ==
  /\ \A i \in 1..Len(srv.out) :
       srv.out[i].Type = EventTypeExtension => ~Contains(srv.out[i].Message, SelfMarker)
  /\ Count(srv.out, LAMBDA x : x.Type = EventTypeExtension)
       >= Count(PostedEvents, LAMBDA e : e.Type = EventTypeExtension /\ ~Marked(e))
  /\ Count(PostedEvents, LAMBDA e : e.Type = EventTypeExtension /\ ~Marked(e)) = 0
       => Count(srv.out, LAMBDA x : x.Type = EventTypeExtension) = 0
  /\ Count(srv.out, LAMBDA x : x.Type = EventTypeFunction)
       >= Count(PostedEvents, LAMBDA e : e.Type = EventTypeFunction)

\* C22 as stated: marked extension events add no entry, unmarked ones and function
\* events are enqueued, and one marked with one unmarked extension event makes the
\* buffer one entry longer
C22_Original ==
  Handled /\ srv.status = 200 =>
    /\ MarkedDropped
    /\ OneMarkedOneUnmarked => Len(buffer.entries) = Len(srv.pre.entries) + 1

\* C22, amended: marked extension events add no entry, unmarked ones and function
\* events are enqueued; one marked with one unmarked extension event hands the
\* buffer the entries of the unmarked event only: one entry, or its chunks when
\* the message is longer than line_split_bytes > 0; the buffer takes them at its
\* end and, when full, drops its oldest entries for them
C22_OwnLogsDropped ==
  Handled /\ srv.status = 200 =>
    /\ MarkedDropped
    /\ OneMarkedOneUnmarked =>
         LET e == CHOOSE x \in {srv.req.body.elems[1], srv.req.body.elems[2]} : ~Marked(x)
             m == Len(Normalised(e))
             n == IF srv.maxLineSize > 0 /\ m > srv.maxLineSize
                    THEN (m + Max(100, srv.maxLineSize - 20) - 1)
                           \div Max(100, srv.maxLineSize - 20)
                    ELSE 1
             all == srv.pre.entries \o [i \in 1..n |-> Project(srv.out[i])]
         IN /\ Len(srv.out) = n
            /\ buffer.entries = LastN(all, Min(Len(all), buffer.maxSize))

\* of a marked and an unmarked extension event only the unmarked one reached a
\* buffer that held an entry
C22_Witness ==
  /\ Handled
  /\ OneMarkedOneUnmarked
  /\ Marked(srv.req.body.elems[1])
  /\ Len(srv.pre.entries) = 1
  /\ Len(srv.out) = 1
  /\ Len(buffer.entries) = 2
  /\ ~Contains(srv.out[1].Message, SelfMarker)

(***************************************************************************)
(* Claims about empty requests and cancellation (SpecPush).                *)
(***************************************************************************)
\* the call has returned nil without a request to the sink and without a wait
ReturnedUncontacted ==
  /\ px.pc = "done"
  /\ px.result = [kind |-> "ok", n |-> 0]
  /\ px.responses = <<>>
  /\ px.sent = <<>>
  /\ px.waited = 0

\* C23 as stated: Push and PushCritical return success without contacting the sink
\* for a nil bundle, a bundle with no streams and a bundle whose streams all have
\* no values
C23_Original ==
  px.bundle \in {"nil", "nostreams", "emptyvalues"} /\ px.pc \notin {"idle", "call"}
    => ReturnedUncontacted

\* C23, amended: Push and PushCritical return success without contacting the sink
\* for a nil bundle and for a bundle with no streams; a bundle whose streams all
\* have no values is sent like any other
C23_EmptyRequest ==
  /\ px.bundle \in {"nil", "nostreams"} /\ px.pc \notin {"idle", "call"}
       => ReturnedUncontacted
  /\ px.bundle = "emptyvalues" /\ px.pc = "done" /\ px.result.kind # "ctx"
       => Len(px.responses) >= 1

\* PushCritical of a bundle with no streams, with retries to spend, has returned nil
C23_Witness ==
  /\ px.bundle = "nostreams"
  /\ px.isCritical
  /\ px.criticalRetries > 0
  /\ ReturnedUncontacted
\* C24: once the context is cancelled the call waits no backoff and starts no
\* attempt after the one under way, which fails; a call that is in its backoff
\* returns the context's error at once, its remaining retries unused
C24_CancelEndsCall ==
  [][px.ctxDone /\ px' # px =>
       /\ px'.waited = px.waited
       /\ px.pc = "backoff" =>
            /\ px'.pc = "done"
            /\ px'.result = [kind |-> "ctx", n |-> 0]
            /\ px'.responses = px.responses
       /\ px.pc = "send" =>
            /\ px'.pc \in {"backoff", "done"}
            /\ Len(px'.responses) = Len(px.responses) + 1
            /\ px'.responses[Len(px'.responses)] = NetErr]_vars

\* a critical push was cancelled in its first backoff and returned the context's
\* error with retries left and nothing waited
C24_Witness ==
  /\ px.pc = "done"
  /\ px.result.kind = "ctx"
  /\ px.isCritical
  /\ Len(px.responses) = 1
  /\ px.criticalRetries > 1
  /\ px.waited = 0

(***************************************************************************)
(* C25: the critical flush is bounded by its snapshot.                     *)
(***************************************************************************)
\* the batches criticalFlush has pulled from the buffer: pushed or in flight
Pulled == Len(last.ret) + (IF hs[1].pc = "cfpush" THEN 1 ELSE 0)

\* remaining := m.buffer.Len(), as criticalFlush read it under the lock
Snapshot == Len(last.pre.entries)

\* C25: a critical flush returns, and at no time has it pulled more batches than
\* the number of entries the buffer held when it started, whatever is added to
\* the buffer by other tasks or by the logger while it runs
C25_BoundedBySnapshot ==
  /\ [](hs[1].pc # "cflock" => Pulled <= Snapshot)
  /\ <>(hs[1].pc = "done")

\* a critical flush that started on one entry returned after one push although
\* two more entries had arrived meanwhile and are still in the buffer
C25_Witness ==
  /\ last.op = "criticalFlush"
  /\ hs[1].pc = "done"
  /\ Snapshot = 1
  /\ Len(last.ret) = 1
  /\ last.n = 2
  /\ BufLen(buffer) = 2

(***************************************************************************)
(* C26: a PushCritical that fails inside a critical flush.                 *)
(***************************************************************************)
\* the step in which the PushCritical of callback k returns an error
FailedPushStep(k) == hs[k].pc = "cfpush" /\ hs'[k].failed

\* the callback k after its critical flush stopped on a failed push
AfterFailedPush(k) == hs[k].pc = "close" /\ hs[k].failed

\* s begins with p
StartsWithSeq(s, p) == Len(p) <= Len(s) /\ SubSeq(s, 1, Len(p)) = p

\* the lines the logger may write in that step: the error, the state transition
FailureLogLines == IF cfg.logBuffer THEN 2 ELSE 0

\* C26 (as the claim states it): when the PushCritical of a critical flush
\* returns an error the flush stops without another push, the entries not yet
\* pulled are all still in the buffer in their order, the failed batch is not put
\* back, and the callback sets the state to IDLE and closes the barrier
C26_Original ==
  [][\A k \in 1..MaxRequests :
       /\ FailedPushStep(k) =>
            /\ hs'[k].pc = "close"
            /\ StartsWithSeq(buffer'.entries, buffer.entries)
            /\ Len(buffer'.entries) <= Len(buffer.entries) + FailureLogLines
            /\ \A i \in (Len(buffer.entries) + 1)..Len(buffer'.entries) :
                 buffer'.entries[i].Type = ExtTypeLen
            /\ state' = StateIdle
       /\ AfterFailedPush(k) =>
            /\ hs'[k].pc \in {"close", "done"}
            /\ hs'[k].pc = "done" =>
                 /\ invocationDone' = NilChan
                 /\ invocationDone # NilChan => invocationDone \in chans'.closed]_vars

\* the line the logger writes, as the buffer holds it
LogLine == LogEntry(0, LogMsgLen, ExtTypeLen, 0)

\* b2 is b after the logger wrote at most FailureLogLines lines: the entries of
\* b in their order, less the oldest ones a full buffer evicted, then the lines
AfterLogLines(b, b2) ==
  \E j \in 0..FailureLogLines :
  \E d \in 0..Min(j, Len(b.entries)) :
     /\ b2.entries = SubSeq(b.entries, d + 1, Len(b.entries)) \o [i \in 1..j |-> LogLine]
     /\ d > 0 => Len(b2.entries) = b.maxSize

\* C26 (amended): when the PushCritical of a critical flush returns an error the
\* flush stops without another push, the failed batch is not put back, the
\* entries not yet pulled stay in the buffer in their order except the oldest
\* ones that a full buffer evicts for the lines the logger writes about the
\* failure, and the callback sets the state to IDLE and closes the barrier
C26_FailedPushStops ==
  [][\A k \in 1..MaxRequests :
       /\ FailedPushStep(k) =>
            /\ hs'[k].pc = "close"
            /\ AfterLogLines(buffer, buffer')
            /\ state' = StateIdle
       /\ AfterFailedPush(k) =>
            /\ hs'[k].pc \in {"close", "done"}
            /\ hs'[k].pc = "done" =>
                 /\ invocationDone' = NilChan
                 /\ invocationDone # NilChan => invocationDone \in chans'.closed]_vars

\* a critical flush stopped on a failed push, the state is IDLE and a function
\* entry it had not pulled heads the buffer
C26_Witness ==
  \E k \in 1..MaxRequests :
     /\ AfterFailedPush(k)
     /\ state = StateIdle
     /\ Len(buffer.entries) >= 2
     /\ buffer.entries[1].Type = TypeLen

(***************************************************************************)
(* C27: the runtime-done callback of the receiver.                         *)
(***************************************************************************)
\* the platform.runtimeDone events among the elements of the posted array
DoneIdx(elems) ==
  {i \in 1..Len(elems) : elems[i].json = "object" /\ elems[i].Type = EventTypePlatformRuntimeDone}

\* those whose record is an object with a string requestId
DoneIdIdx(elems) ==
  {i \in DoneIdx(elems) : elems[i].Record.isMap /\ elems[i].Record.hasId}

MaxOf(S) == CHOOSE x \in S : \A y \in S : y <= x

\* the requestId of the last of them, "" if there is none
LastDoneId(elems) ==
  IF DoneIdIdx(elems) = {} THEN <<>> ELSE elems[MaxOf(DoneIdIdx(elems))].Record.requestId

\* the callback ran once, with id, on the buffer as the request's AddBatch left it
CalledOnceWith(id) ==
  /\ Len(srv.called) = 1
  /\ srv.called[1].id = id
  /\ srv.called[1].found = buffer.entries

\* C27 (as the claim states it): a request with at least one platform.runtimeDone
\* event, on a Server with a callback, calls it exactly once after the AddBatch
\* with the request id of such an event; any other request does not call it
C27_Original ==
  srv.n > 0 =>
    IF DoneIdx(srv.req.body.elems) # {} /\ srv.hasCallback
      THEN \E i \in DoneIdx(srv.req.body.elems) :
             /\ srv.req.body.elems[i].Record.isMap
             /\ srv.req.body.elems[i].Record.hasId
             /\ CalledOnceWith(srv.req.body.elems[i].Record.requestId)
      ELSE srv.called = <<>>

\* C27 (amended): a POST request calls the callback exactly once, after its
\* AddBatch, if a callback is registered and the last platform.runtimeDone event
\* carrying a string requestId carries a non-empty one, which it passes; any
\* other request does not call it
C27_CallbackOnce ==
  srv.n > 0 =>
    IF /\ srv.req.method = "POST"
       /\ LastDoneId(srv.req.body.elems) # <<>>
       /\ srv.hasCallback
      THEN CalledOnceWith(LastDoneId(srv.req.body.elems))
      ELSE srv.called = <<>>

\* a request of two runtimeDone events, the first for IdA and the second
\* without a requestId, called the callback once with IdA on both entries
C27_Witness ==
  /\ srv.n > 0
  /\ Len(srv.req.body.elems) = 2
  /\ DoneIdx(srv.req.body.elems) = {1, 2}
  /\ DoneIdIdx(srv.req.body.elems) = {1}
  /\ CalledOnceWith(IdA)
  /\ Len(srv.out) = 2
  /\ Len(buffer.entries) >= 2

(***************************************************************************)
(* C28: completion channels are fresh and closed once.                     *)
(***************************************************************************)
\* the event loop stores the channel of the INVOKE it handles in this step
StoresChannel == ev.pc = "invoke" /\ ev'.pc = "select"

\* C28: the channel every handled INVOKE stores was never made, stored or closed
\* before, and a callback that closes the stored channel closes an open one,
\* however requests with runtime-done events overlap or repeat
C28_FreshAndClosedOnce ==
  [][/\ StoresChannel =>
          /\ invocationDone' # NilChan
          /\ invocationDone' \notin 1..chans.made
          /\ invocationDone' \in 1..chans'.made
          /\ invocationDone' \notin chans'.closed
     /\ \A k \in 1..MaxRequests :
          ClosesBarrier(k) => /\ invocationDone \notin chans.closed
                              /\ invocationDone' = NilChan]_vars

\* the first channel was closed, the second INVOKE has stored its own, and a
\* repeated callback of the first invocation is about to close
C28_Witness ==
  /\ chans.made = 2
  /\ chans.closed = {1}
  /\ invocationDone = 2
  /\ \E k \in 1..MaxRequests : hs[k].pc = "close" /\ hs[k].rd = 1

(***************************************************************************)
(* C29: when the barrier slot is nil.                                      *)
(***************************************************************************)
\* the event loop has stored the channel of its INVOKE and was not released
Waiting == ev.pc \in {"select", "wait"}

\* Run returned because the context was cancelled
Cancelled == ev.pc = "returned" /\ ev.err = "context canceled"

\* C29 (as the claim states it): the slot holds a channel exactly while the event
\* loop waits on the barrier; it is nil at any other time, also once the event
\* loop has left the wait because the context was cancelled
C29_Original == (invocationDone # NilChan) <=> Waiting

\* C29 (amended): the slot holds a channel only while the event loop waits on the
\* barrier or after it left the wait through cancellation, and the channel is then
\* the open one of the last INVOKE; during the wait the slot is nil only once
\* a callback has closed that channel
C29_SlotLaw ==
  /\ invocationDone # NilChan =>
       /\ Waiting \/ Cancelled
       /\ invocationDone = ev.mine
       /\ invocationDone \notin chans.closed
  /\ (Waiting /\ invocationDone = NilChan) => ev.mine \in chans.closed
  /\ (Cancelled /\ invocationDone = NilChan) => (ev.mine = NilChan \/ ev.mine \in chans.closed)

\* the event loop left the wait of its second INVOKE through cancellation and the
\* slot still holds that INVOKE's channel, which nobody closed
C29_Witness ==
  /\ Cancelled
  /\ invocationDone = 2
  /\ chans.closed = {1}

(***************************************************************************)
(* C30: one regular flush.                                                 *)
(***************************************************************************)
\* flush takes the mutex and calls flushBatch in this step
FlushStarts == fl.pc = "lock" /\ fl'.pc # "lock"

\* the Push of flush returns in this step
PushReturns == fl.pc = "push" /\ fl'.pc # "push"

\* es2 is es after the logger wrote at most n lines into a buffer of maxSize
\* entries: es less the oldest entries a full buffer evicted, then the lines
WithLines(es, es2, n, maxSize) ==
  \E j \in 0..(IF cfg.logBuffer THEN n ELSE 0) :
  \E d \in 0..Min(j, Len(es)) :
     /\ es2 = SubSeq(es, d + 1, Len(es)) \o [i \in 1..j |-> LogLine]
     /\ d > 0 => Len(es2) = maxSize

\* the entries of es without the marks of the callbacks
Plain(es) == [i \in 1..Len(es) |-> [es[i] EXCEPT !.w = {}]]

\* what the buffer's call for the configured limits returns
Chosen(b) ==
  IF cfg.MaxBatchSizeBytes > 0
    THEN FlushBySize(b, cfg.BatchSize, cfg.MaxBatchSizeBytes).ret
    ELSE Flush(b, cfg.BatchSize).ret

\* es2 is es followed by at most n lines of the logger
FollowedByLines(es, es2, n) ==
  \E j \in 0..(IF cfg.logBuffer THEN n ELSE 0) : es2 = es \o [i \in 1..j |-> LogLine]

\* C30 (as the claim states it): a regular flush of an empty buffer makes no
\* Push; of any other buffer it removes one batch of at most BatchSize entries,
\* chosen by FlushBySize under a byte limit and by Flush without, and makes one Push
\* for it; the batch of a failed Push is not put back, and the buffer holds exactly
\* what the removal left and what was added since
C30_Original ==
  [][/\ FlushStarts =>
          IF buffer.entries = <<>>
            THEN /\ fl'.pc = "select"
                 /\ fl'.batch = <<>>
                 /\ buffer' = buffer
            ELSE /\ fl'.pc = "push"
                 /\ Len(fl'.batch) \in 1..cfg.BatchSize
                 /\ fl'.batch = Chosen(buffer)
                 /\ FollowedByLines(SubSeq(buffer.entries, Len(fl'.batch) + 1,
                                            Len(buffer.entries)),
                                    buffer'.entries, 1)
     /\ (fl.pc = "push" /\ ~PushReturns) => Plain(fl'.batch) = Plain(fl.batch)
     /\ PushReturns =>
          /\ fl'.pc = "select"
          /\ fl'.batch = <<>>
          /\ FollowedByLines(buffer.entries, buffer'.entries, 1)]_vars

\* C30 (amended): a regular flush of an empty buffer makes no Push and changes
\* nothing; of any other buffer it removes one batch of at most BatchSize
\* entries from the front, the one FlushBySize returns under a byte limit and Flush
\* returns without, and makes one Push for it; when the Push returns, with an error
\* or not, the batch is gone and the buffer is what it was with what was added
\* since (the logger's lines about the push and its error, if the logger writes
\* into the buffer), less the oldest entries a full buffer evicted for them
C30_OneBatchOnePush ==
  [][/\ FlushStarts =>
          IF buffer.entries = <<>>
            THEN /\ fl'.pc = "select"
                 /\ fl'.batch = <<>>
                 /\ buffer' = buffer
            ELSE /\ fl'.pc = "push"
                 /\ Len(fl'.batch) \in 1..cfg.BatchSize
                 /\ fl'.batch = SubSeq(buffer.entries, 1, Len(fl'.batch))
                 /\ fl'.batch = Chosen(buffer)
                 /\ WithLines(SubSeq(buffer.entries, Len(fl'.batch) + 1, Len(buffer.entries)),
                              buffer'.entries, 1, buffer.maxSize)
     /\ (fl.pc = "push" /\ ~PushReturns) => Plain(fl'.batch) = Plain(fl.batch)
     /\ PushReturns =>
          /\ fl'.pc = "select"
          /\ fl'.batch = <<>>
          /\ IF fl'.failed
               THEN WithLines(buffer.entries, buffer'.entries, 1, buffer.maxSize)
               ELSE buffer' = buffer]_vars

\* the Push of a regular flush has failed: the loop is back at its select, holds
\* no batch, and the full buffer ends with the logger's line about the error
C30_Witness ==
  /\ fl.pc = "select"
  /\ fl.failed
  /\ fl.batch = <<>>
  /\ cfg.logBuffer
  /\ Len(buffer.entries) = buffer.maxSize
  /\ buffer.entries[Len(buffer.entries)].Type = ExtTypeLen

(***************************************************************************)
(* C31: what starts a regular flush.                                       *)
(***************************************************************************)
\* the flush loop receives the ready edge in this step
ReadyObserved == fl.pc = "select" /\ buffer.ready = 1 /\ buffer'.ready = 0

\* the flush loop calls flush in this step
FlushCalled == fl.pc = "select" /\ fl'.pc = "lock"

\* enough for a batch: by count, or by bytes when there is a byte limit
EnoughForBatch ==
  \/ Len(buffer.entries) >= cfg.BatchSize
  \/ (cfg.MaxBatchSizeBytes > 0 /\ SumSizes(buffer.entries) >= cfg.MaxBatchSizeBytes)

\* C31: the flush loop calls flush when it receives a ready edge if and only if
\* the buffer then holds enough for a batch, and otherwise only on a timer tick;
\* a ready edge received on a buffer that holds less takes the edge and nothing
\* else: the entries stay, nothing is pulled and nothing is pushed
C31_FlushTriggers ==
  [][/\ ReadyObserved =>
          /\ FlushCalled <=> EnoughForBatch
          /\ buffer'.entries = buffer.entries
          /\ buffer'.byteSize = buffer.byteSize
          /\ ~EnoughForBatch => (fl' = fl /\ sink' = sink /\ criticalFlushMu' = criticalFlushMu)
     /\ (FlushCalled /\ ~ReadyObserved) => buffer' = buffer]_vars

\* the loop called flush on a buffer of one entry that reaches the byte limit
C31_Witness ==
  /\ fl.pc = "lock"
  /\ buffer.ready = 0
  /\ Len(buffer.entries) = 1
  /\ cfg.BatchSize = 2
  /\ cfg.MaxBatchSizeBytes = 20
  /\ buffer.byteSize = 20

\* the loop took a ready edge on one entry below both limits and did not flush
C31_WitnessBelow ==
  /\ fl.pc = "select"
  /\ buffer.ready = 0
  /\ Len(buffer.entries) = 1
  /\ ~EnoughForBatch
  /\ criticalFlushMu = Free
  /\ \A k \in 1..MaxRequests : hs[k].pc \in {"none", "done"}

(***************************************************************************)
(* C32: setState and the interval-change edge.                             *)
(***************************************************************************)
\* the step calls m.setState(newState): the assigned value, if there is a call
SetStateCalls ==
  {StateActive : x \in {y \in {1} : ev.pc = "invoke" /\ ev'.pc = "select"}}
    \cup {StateFlushing : k \in {j \in 1..MaxRequests :
                                   hs[j].pc = "added" /\ hs'[j].pc = "cflock"}}
    \cup {StateIdle : k \in {j \in 1..MaxRequests :
                               hs[j].pc \in {"cflock", "cfpush"} /\ hs'[j].pc = "close"}}

\* C32: a setState to the value the cell holds raises no edge and leaves the cell
\* and a pending edge as they are; a setState to another value stores it and
\* leaves an edge pending; and the caller is never held up: each call can take
\* place whether an edge is pending or not
C32_EdgeOnChange ==
  /\ [][\A new \in SetStateCalls :
          /\ state' = new
          /\ IF state = new THEN intervalChange' = intervalChange
                             ELSE intervalChange' = 1]_vars
  /\ [](ev.pc = "invoke" => ENABLED EvStoreChan)
  /\ [](\A k \in 1..MaxRequests :
          /\ (Alive /\ hs[k].pc = "added" /\ hs[k].rd # 0) => ENABLED HCallback(k)
          /\ (Alive /\ hs[k].pc = "cfpush") => ENABLED HCritPush(k))

\* two callbacks have set FLUSHING, the second on a cell that held it already,
\* and no edge is pending
C32_Witness ==
  /\ \A k \in 1..MaxRequests : hs[k].pc \in {"cflock", "cfpush"}
  /\ state = StateFlushing
  /\ intervalChange = 0

(***************************************************************************)
(* C33: the state FLUSHING and the critical flush.                         *)
(***************************************************************************)
\* the callback of request k is between its setState(StateFlushing) and its
\* setState(StateIdle): it waits for the mutex or runs its critical flush
InCriticalFlush(k) == hs[k].pc \in {"cflock", "cfpush"}

C33_WitnessIdle ==
  /\ \E k \in 1..MaxRequests : hs[k].pc = "cfpush"
  /\ state = StateIdle

(***************************************************************************)
(* C34: the request id of function and extension entries.                  *)
(***************************************************************************)
\* the events of the last request, as the handler's loop sees them
SeenEvents == Unmarshal(srv.req.body).events

\* the message of a function or extension event
EventMessage(e) == formatRecordWithTimestamp(RecordText(e.Record), e.Time, srv.req.now).message

\* the event is a function or extension line that is not the agent's own
IsLine(e) ==
  /\ e.Type \in {EventTypeFunction, EventTypeExtension}
  /\ ~(e.Type = EventTypeExtension /\ Contains(EventMessage(e), SelfMarker))

\* the event adds an entry to the batch (each message here is a single chunk)
Produces(e) ==
  \/ e.Type \in {EventTypePlatformStart, EventTypePlatformRuntimeDone, EventTypePlatformReport}
  \/ IsLine(e)

\* the position in the batch of the entry of event i
EntryIndex(es, i) == Cardinality({j \in 1..i : Produces(es[j])})

\* the id current before event i: the requestId of the last platform.start before
\* it that carries one as a string, in this request or, failing that, the id
\* current when the request arrived
CurrentBefore(es, i, pre) ==
  LET starts == {j \in 1..(i - 1) : /\ es[j].Type = EventTypePlatformStart
                                     /\ es[j].Record.isMap
                                     /\ es[j].Record.hasId}
  IN IF starts = {} THEN pre ELSE es[MaxOf(starts)].Record.requestId

\* C34: every function or extension entry carries the requestId of the most
\* recent platform.start that had one, of the same or an earlier request, if
\* that id is not empty, whatever platform.runtimeDone events came in between;
\* only without such an id does it carry the id extracted from its message, if
\* extraction is enabled, or none; and the id current after the request is the
\* one of its last platform.start with a requestId, else the one before
C34_RequestIdOfEntries ==
  (srv.n > 0 /\ srv.status = 200) =>
    /\ \A i \in 1..Len(SeenEvents) :
         IsLine(SeenEvents[i]) =>
           LET cur == CurrentBefore(SeenEvents, i, srv.preId)
               entry == srv.out[EntryIndex(SeenEvents, i)]
           IN /\ entry.Type = SeenEvents[i].Type
              /\ entry.RequestID =
                   IF cur # <<>> THEN cur
                   ELSE IF srv.extractRequestID
                     THEN extractRequestID(EventMessage(SeenEvents[i]))
                     ELSE <<>>
    /\ srv.currentRequestID = CurrentBefore(SeenEvents, Len(SeenEvents) + 1, srv.preId)

\* the second request starts with a platform.runtimeDone and arrives when IdA is
\* current: its function line, which names another id, carries IdA
C34_Witness ==
  /\ srv.n = 2
  /\ srv.status = 200
  /\ srv.preId = IdA
  /\ srv.extractRequestID
  /\ Len(SeenEvents) = 2
  /\ SeenEvents[1].Type = EventTypePlatformRuntimeDone
  /\ SeenEvents[2].Type = EventTypeFunction
  /\ extractRequestID(EventMessage(SeenEvents[2])) = IdB
  /\ Len(srv.out) = 2
  /\ srv.out[2].RequestID = IdA

\* no id is current and extraction is enabled: the line carries the id it names
C34_WitnessExtracted ==
  /\ srv.n > 0
  /\ srv.status = 200
  /\ srv.preId = <<>>
  /\ srv.extractRequestID
  /\ Len(SeenEvents) = 1
  /\ Len(srv.out) = 1
  /\ srv.out[1].Type = EventTypeFunction
  /\ srv.out[1].RequestID = IdB

(***************************************************************************)
(* C35: entries leave the buffer on timer ticks alone.                     *)
(***************************************************************************)
\* the flush loop pulls a batch from the buffer in this step
FlushPulls == fl.pc = "lock" /\ fl'.pc = "push"

\* the critical flush of callback k pulls a batch from the buffer in this step
CriticalPulls(k) ==
  /\ hs'[k].pc = "cfpush"
  /\ \/ hs[k].pc = "cflock"
     \/ hs[k].pc = "cfpush" /\ hs'[k].remaining < hs[k].remaining

\* some task pulls a batch
Pulls == FlushPulls \/ \E k \in 1..MaxRequests : CriticalPulls(k)

\* C35: a pull of the flush loop takes a non-empty prefix of the buffer, and as
\* long as the buffer keeps holding entries batches keep being pulled from its
\* front, with nothing assumed about ready edges: so every entry, which only
\* moves towards the front, is removed after finitely many pulls
C35_EventuallyRemoved ==
  /\ [][FlushPulls => /\ Len(fl'.batch) >= 1
                      /\ fl'.batch = SubSeq(buffer.entries, 1, Len(fl'.batch))]_vars
  /\ ([]<>(buffer.entries # <<>>) => []<><<Pulls>>_vars)

\* one entry below both limits is in the buffer, no ready edge is pending, and
\* the flush loop, which has pulled nothing yet, is at its select
C35_Witness ==
  /\ Len(buffer.entries) = 1
  /\ buffer.ready = 0
  /\ fl.pc = "select"
  /\ ~shouldFlush(buffer)

(***************************************************************************)
(* C36: the flush loop exits on either stop signal.                        *)
(***************************************************************************)
\* the stop channel is closed or the context is cancelled
StopSignal == stopFlush \/ ctxDone

\* C36: once a stop signal is raised the flush loop, as long as the process
\* lives, ends up exited; it exits from its select only, so after the flush it
\* was executing has returned, and only on a signal; having exited it takes no
\* further step, so it starts no flush and exits once, with one signal or both
C36_LoopExits ==
  /\ [](StopSignal => <>(fl.pc = "exited" \/ ~Alive))
  /\ [][fl.pc # "exited" /\ fl'.pc = "exited"
          => fl.pc = "select" /\ StopSignal /\ fl'.batch = <<>>]_vars
  /\ [][fl.pc = "exited" => fl' = fl /\ criticalFlushMu' # FlTask]_vars

\* both signals are raised and the loop has exited after a push that it was
\* executing; the process is alive
C36_Witness ==
  /\ stopFlush
  /\ ctxDone
  /\ fl.pc = "exited"
  /\ fl.failed
  /\ Alive

(***************************************************************************)
(* C37: shutdown and a critical flush in progress.                         *)
(***************************************************************************)
\* shutdown has taken the buffer's entries with Drain
DrainBegun == ev.pc \in {"finalpush", "returned"} /\ ev.err = ""

\* C37: a critical flush in progress when SHUTDOWN is handled has completed
\* before shutdown drains the buffer and calls the final PushCritical (callback k
\* runs one critical flush, so InCriticalFlush(k) later on is that same flush)
C37_ShutdownWaits == DrainBegun => \A k \in ev.crit : ~InCriticalFlush(k)

(***************************************************************************)
(* SpecOrder: the three consumers of the buffer, step by step.  flush and  *)
(* criticalFlush remove a batch under criticalFlushMu and then call Push   *)
(* or PushCritical; shutdown calls Drain and then PushCritical without the *)
(* mutex.  Removing a batch and handing it to the transport are two steps  *)
(* of a task, and producers add entries at any moment.  Every accepted     *)
(* entry has an identity; returned lists the identities in the order they  *)
(* were removed, last.ret the bundles in the order their push started.     *)
(***************************************************************************)
OrderConfigs ==
  {[BufferSize |-> 3, BatchSize |-> bs, MaxBatchSizeBytes |-> 0,
    FlushIntervalMs |-> 2, IdleFlushMultiplier |-> 3, logBuffer |-> FALSE] :
     bs \in 1..2}

OrderInit ==
  /\ cfg \in OrderConfigs
  /\ buffer = New(cfg.BufferSize)
  /\ nextId = 1
  /\ dropped = {}
  /\ returned = <<>>
  /\ last = [NoCall EXCEPT !.op = "push"]
  /\ hs = [k \in 1..MaxRequests |-> IF k = 1 THEN [NoHandler EXCEPT !.pc = "cflock"]
                                              ELSE NoHandler]
  /\ px = PxIdle
  /\ state = StateIdle
  /\ intervalChange = 0
  /\ stopFlush = FALSE
  /\ criticalFlushMu = Free
  /\ invocationDone = NilChan
  /\ chans = [made |-> 0, closed |-> {}]
  /\ ctxDone = FALSE
  /\ ev = EvInit
  /\ fl = [FlInit EXCEPT !.pc = "select"]
  /\ host = HostInit
  /\ sink = [k \in 1..MaxRequests |-> NoFate]
  /\ srv = SrvIdle

notOrder == <<px, cfg, state, intervalChange, invocationDone, chans, ctxDone, host, sink, srv>>

\* a bundle handed to the transport by a task
Bundle(by, batch) == [by |-> by, ids |-> IdSeq(batch)]

\* a producer (a handler's AddBatch, a line of the logger): Buffer.Add
OrAdd ==
  /\ Alive
  /\ nextId <= MaxIds
  /\ nextId' = nextId + 1
  /\ \E e \in {LogEntry(nextId, LogMsgLen, TypeLen, 0)} :
     \E r \in {Add(buffer, e)} :
        IF buffer.closed
          THEN UNCHANGED <<buffer, dropped>>
          ELSE /\ buffer' = r.b
               /\ dropped' = dropped \cup Evicted(buffer, <<e>>, r.b)
  /\ UNCHANGED <<returned, last, stopFlush, criticalFlushMu, ev, fl, hs, notOrder>>

\* flush: Lock; entries := m.flushBatch(); nil: unlock and return
OrFlPull ==
  /\ Alive
  /\ fl.pc = "select"
  /\ CanLock(criticalFlushMu)
  /\ \E r \in {flushBatch(buffer)} :
       /\ Len(r.ret) > 0
       /\ buffer' = r.b
       /\ returned' = returned \o IdSeq(r.ret)
       /\ fl' = [fl EXCEPT !.pc = "pulled", !.batch = r.ret]
  /\ criticalFlushMu' = FlTask
  /\ UNCHANGED <<nextId, dropped, last, stopFlush, ev, hs, notOrder>>

\* flush: log, NewBatch, ToPushRequest; m.lokiClient.Push(ctx, pushReq) is called
OrFlStart ==
  /\ Alive
  /\ fl.pc = "pulled"
  /\ fl' = [fl EXCEPT !.pc = "push"]
  /\ last' = [last EXCEPT !.ret = Append(@, Bundle("flush", fl.batch))]
  /\ UNCHANGED <<buffer, nextId, dropped, returned, stopFlush, criticalFlushMu, ev, hs,
                 notOrder>>

\* Push returns; the deferred Unlock runs; back to the select
OrFlReturn ==
  /\ Alive
  /\ fl.pc = "push"
  /\ fl' = [fl EXCEPT !.pc = "select", !.batch = <<>>]
  /\ criticalFlushMu' = Free
  /\ UNCHANGED <<buffer, nextId, dropped, returned, last, stopFlush, ev, hs, notOrder>>

\* case <-m.stopFlush: return
OrFlExit ==
  /\ Alive
  /\ fl.pc = "select"
  /\ stopFlush
  /\ fl' = [fl EXCEPT !.pc = "exited"]
  /\ UNCHANGED <<buffer, nextId, dropped, returned, last, stopFlush, criticalFlushMu, ev,
                 hs, notOrder>>

\* criticalFlush: Lock; remaining := m.buffer.Len(); first flushBatch of the loop
OrCrLock ==
  /\ Alive
  /\ hs[1].pc = "cflock"
  /\ CanLock(criticalFlushMu)
  /\ \E l \in {CritLoop(World, BufLen(buffer))} :
       IF Len(l.batch) = 0
         THEN /\ hs' = [hs EXCEPT ![1].pc = "done"]
              /\ UNCHANGED <<buffer, returned, criticalFlushMu>>
         ELSE /\ buffer' = l.w.b
              /\ returned' = returned \o IdSeq(l.batch)
              /\ criticalFlushMu' = 1
              /\ hs' = [hs EXCEPT ![1] = [@ EXCEPT !.pc = "pulled", !.batch = l.batch,
                                                    !.remaining = l.remaining]]
  /\ UNCHANGED <<nextId, dropped, last, stopFlush, ev, fl, notOrder>>

\* criticalFlush: NewBatch, ToPushRequest; m.lokiClient.PushCritical is called
OrCrStart ==
  /\ Alive
  /\ hs[1].pc = "pulled"
  /\ hs' = [hs EXCEPT ![1].pc = "cfpush"]
  /\ last' = [last EXCEPT !.ret = Append(@, Bundle("critical", hs[1].batch))]
  /\ UNCHANGED <<buffer, nextId, dropped, returned, stopFlush, criticalFlushMu, ev, fl,
                 notOrder>>

\* PushCritical returns: an error breaks the loop; else the next flushBatch; when
\* the loop is over the deferred Unlock runs
OrCrReturn ==
  /\ Alive
  /\ hs[1].pc = "cfpush"
  /\ \E ok \in BOOLEAN :
     \E l \in {CritLoop(World, hs[1].remaining)} :
       IF ok /\ Len(l.batch) > 0
         THEN /\ buffer' = l.w.b
              /\ returned' = returned \o IdSeq(l.batch)
              /\ hs' = [hs EXCEPT ![1] = [@ EXCEPT !.pc = "pulled", !.batch = l.batch,
                                                    !.remaining = l.remaining]]
              /\ UNCHANGED criticalFlushMu
         ELSE /\ hs' = [hs EXCEPT ![1] = [@ EXCEPT !.pc = "done", !.batch = <<>>]]
              /\ criticalFlushMu' = Free
              /\ UNCHANGED <<buffer, returned>>
  /\ UNCHANGED <<nextId, dropped, last, stopFlush, ev, fl, notOrder>>

\* shutdown: close(m.stopFlush); telemetryServer.Shutdown; Sleep
OrStop ==
  /\ ev.pc = "next"
  /\ stopFlush' = TRUE
  /\ ev' = [ev EXCEPT !.pc = "drain"]
  /\ UNCHANGED <<buffer, nextId, dropped, returned, last, criticalFlushMu, fl, hs, notOrder>>

\* shutdown: entries := m.buffer.Drain(); none: return nil
OrDrain ==
  /\ ev.pc = "drain"
  /\ \E r \in {Drain(buffer)} :
       /\ buffer' = r.b
       /\ returned' = returned \o IdSeq(r.ret)
       /\ ev' = IF Len(r.ret) > 0 THEN [ev EXCEPT !.pc = "drained", !.batch = r.ret]
                                  ELSE [ev EXCEPT !.pc = "returned"]
  /\ UNCHANGED <<nextId, dropped, last, stopFlush, criticalFlushMu, fl, hs, notOrder>>

\* shutdown: log, NewBatch, ToPushRequest; m.lokiClient.PushCritical is called
OrFinalStart ==
  /\ ev.pc = "drained"
  /\ ev' = [ev EXCEPT !.pc = "finalpush"]
  /\ last' = [last EXCEPT !.ret = Append(@, Bundle("shutdown", ev.batch))]
  /\ UNCHANGED <<buffer, nextId, dropped, returned, stopFlush, criticalFlushMu, fl, hs,
                 notOrder>>

\* PushCritical returns; "Shutdown complete"; Run returns and the process ends
OrFinalReturn ==
  /\ ev.pc = "finalpush"
  /\ ev' = [ev EXCEPT !.pc = "returned", !.batch = <<>>]
  /\ UNCHANGED <<buffer, nextId, dropped, returned, last, stopFlush, criticalFlushMu, fl,
                 hs, notOrder>>

OrderNext ==
  \/ OrAdd
  \/ OrFlPull
  \/ OrFlStart
  \/ OrFlReturn
  \/ OrFlExit
  \/ OrCrLock
  \/ OrCrStart
  \/ OrCrReturn
  \/ OrStop
  \/ OrDrain
  \/ OrFinalStart
  \/ OrFinalReturn

SpecOrder == OrderInit /\ [][OrderNext]_vars

(***************************************************************************)
(* C38: the bundles handed to the transport and the order of acceptance.   *)
(***************************************************************************)
\* the identities of the bundles, one after the other
BundleIds(bs) == Concat([i \in 1..Len(bs) |-> bs[i].ids])

\* the bundles of bs handed over by regular and critical flushes
OfFlushes(bs) == SelectSeq(bs, LAMBDA b : b.by # "shutdown")

\* the concatenation of the bundles in push-start order follows the order of
\* acceptance and holds no entry twice
C38_Original == StrictlyIncreasing(BundleIds(last.ret))

\* C38: entries leave the buffer in the order of acceptance and once; every
\* bundle handed to the transport is a batch that was removed, in its order, and
\* no entry is handed over twice; the pushes of regular and critical flushes
\* start in the order of removal
C38_RemovalOrder ==
  /\ StrictlyIncreasing(returned)
  /\ SeqRange(BundleIds(last.ret)) \subseteq SeqRange(returned)
  /\ Cardinality(SeqRange(BundleIds(last.ret))) = Len(BundleIds(last.ret))
  /\ \A i \in 1..Len(last.ret) : StrictlyIncreasing(last.ret[i].ids)
  /\ StrictlyIncreasing(BundleIds(OfFlushes(last.ret)))

\* three bundles were handed over, one by each consumer, and an entry was
\* dropped by overflow
C38_Witness ==
  /\ {last.ret[i].by : i \in 1..Len(last.ret)} = {"flush", "critical", "shutdown"}
  /\ dropped # {}

(***************************************************************************)
(* SpecInterval: setState and the interval-change case of the flush loop,  *)
(* statement by statement.  The setters (the event loop, the runtime-done  *)
(* callbacks) swap the state cell and then try to send the edge; the loop  *)
(* receives the edge, loads the state and then assigns its interval, and   *)
(* is away from its select while it flushes.                               *)
(***************************************************************************)
IntervalConfigs ==
  {[BufferSize |-> 1, BatchSize |-> 1, MaxBatchSizeBytes |-> 0,
    FlushIntervalMs |-> 2, IdleFlushMultiplier |-> m, logBuffer |-> FALSE] : m \in {1, 3}}

States == {StateIdle, StateActive, StateFlushing}

\* a task that calls setState; dropped: one of its sends found the slot full
IvSetter == [pc |-> "idle", dropped |-> FALSE]

IntervalInit ==
  /\ cfg \in IntervalConfigs
  /\ state = StateIdle
  /\ intervalChange = 0
  /\ fl = [pc |-> "start", interval |-> 0, newInterval |-> 0]
  /\ hs = [k \in 1..MaxRequests |-> IvSetter]
  /\ buffer = New(cfg.BufferSize)
  /\ nextId = 1
  /\ dropped = {}
  /\ returned = <<>>
  /\ last = NoCall
  /\ px = PxIdle
  /\ stopFlush = FALSE
  /\ criticalFlushMu = Free
  /\ invocationDone = NilChan
  /\ chans = [made |-> 0, closed |-> {}]
  /\ ctxDone = FALSE
  /\ ev = EvInit
  /\ host = HostInit
  /\ sink = [k \in 1..MaxRequests |-> NoFate]
  /\ srv = SrvIdle

notInterval ==
  <<bufVars, px, cfg, stopFlush, criticalFlushMu, invocationDone, chans, ctxDone, ev, host,
    sink, srv>>

\* setState: oldState := m.state.Swap(newState); equal: return
IvSwap(k, newState) ==
  /\ hs[k].pc = "idle"
  /\ state' = newState
  /\ hs' = [hs EXCEPT ![k].pc = IF state # newState THEN "send" ELSE "idle"]
  /\ UNCHANGED <<intervalChange, fl, notInterval>>

\* a setState that returns without sending
IvSendLost(k) ==
  /\ hs[k].pc = "send"
  /\ hs' = [hs EXCEPT ![k].pc = "idle"]
  /\ UNCHANGED <<state, intervalChange, fl, notInterval>>

\* setState: select { case m.intervalChange <- struct{}{}: default: }
IvSend(k) ==
  /\ hs[k].pc = "send"
  /\ intervalChange' = 1
  /\ hs' = [hs EXCEPT ![k] = [pc |-> "idle", dropped |-> @.dropped \/ intervalChange = 1]]
  /\ UNCHANGED <<state, fl, notInterval>>

\* flushLoop: interval := m.getFlushInterval(); NewTicker
IvStart ==
  /\ fl.pc = "start"
  /\ fl' = [fl EXCEPT !.pc = "select", !.interval = getFlushInterval(state)]
  /\ UNCHANGED <<state, intervalChange, hs, notInterval>>

\* flushLoop: case <-m.intervalChange
IvRecv ==
  /\ fl.pc = "select"
  /\ intervalChange = 1
  /\ intervalChange' = 0
  /\ fl' = [fl EXCEPT !.pc = "recvd"]
  /\ UNCHANGED <<state, hs, notInterval>>

\* flushLoop: newInterval := m.getFlushInterval()
IvLoad ==
  /\ fl.pc = "recvd"
  /\ fl' = [fl EXCEPT !.pc = "loaded", !.newInterval = getFlushInterval(state)]
  /\ UNCHANGED <<state, intervalChange, hs, notInterval>>

\* flushLoop: if newInterval != interval { interval = newInterval; ticker.Reset; log }
IvAssign ==
  /\ fl.pc = "loaded"
  /\ fl' = [fl EXCEPT !.pc = "select", !.interval = fl.newInterval]
  /\ UNCHANGED <<state, intervalChange, hs, notInterval>>

\* flushLoop: the ticker or ready case calls m.flush
IvFlush ==
  /\ fl.pc = "select"
  /\ fl' = [fl EXCEPT !.pc = "flush"]
  /\ UNCHANGED <<state, intervalChange, hs, notInterval>>

\* m.flush returns
IvFlushed ==
  /\ fl.pc = "flush"
  /\ fl' = [fl EXCEPT !.pc = "select"]
  /\ UNCHANGED <<state, intervalChange, hs, notInterval>>

IntervalNext ==
  \/ \E k \in 1..MaxRequests : \E s \in States : IvSwap(k, s)
  \/ \E k \in 1..MaxRequests : IvSend(k)
  \/ IvStart
  \/ IvRecv
  \/ IvLoad
  \/ IvAssign
  \/ IvFlush
  \/ IvFlushed

SpecInterval == IntervalInit /\ [][IntervalNext]_vars

(***************************************************************************)
(* C39: the interval of the flush loop follows the state.                  *)
(***************************************************************************)
\* the interval of the current state
IntervalOfState ==
  CASE state = StateActive -> cfg.FlushIntervalMs
    [] state = StateIdle -> cfg.FlushIntervalMs * cfg.IdleFlushMultiplier
    [] state = StateFlushing -> (cfg.FlushIntervalMs * 3) \div 2

\* no edge is pending, no setState is between its swap and its send, and the
\* running loop is not between receiving an edge and assigning its interval
EdgesConsumed ==
  /\ intervalChange = 0
  /\ \A k \in 1..MaxRequests : hs[k].pc = "idle"
  /\ fl.pc \in {"select", "flush"}

\* C39: whenever the loop has consumed every edge and no setState is in
\* progress, its interval is the interval of the current state
C39_IntervalFollowsState == EdgesConsumed => fl.interval = IntervalOfState

\* an edge was dropped on the full slot, every edge has been consumed, and the
\* loop runs on the interval of FLUSHING
C39_Witness ==
  /\ EdgesConsumed
  /\ \E k \in 1..MaxRequests : hs[k].dropped
  /\ state = StateFlushing
  /\ fl.interval = 3

(***************************************************************************)
(* SpecAll: the whole Manager with overlapping requests, SHUTDOWN and      *)
(* cancellation.                                                           *)
(***************************************************************************)
NextAll ==
  \/ Next
  \/ \E k \in 1..MaxRequests : HRecvOverlap(k)

SpecAll == InitOverlap /\ [][NextAll]_vars

(***************************************************************************)
(* C40: transport pushes in flight.                                        *)
(***************************************************************************)
\* the callbacks whose PushCritical is in flight
CriticalPushes == {k \in 1..MaxRequests : hs[k].pc = "cfpush"}

\* the pushes of regular and critical flushes in flight
FlushPushes == Cardinality(CriticalPushes) + (IF fl.pc = "push" THEN 1 ELSE 0)

\* at most one push is in flight, the PushCritical of shutdown included
C40_Original == FlushPushes + (IF ev.pc = "finalpush" THEN 1 ELSE 0) <= 1

\* C40: at most one push of a regular or critical flush is in flight, and the
\* task it belongs to holds criticalFlushMu
C40_FlushesSerialised ==
  /\ FlushPushes <= 1
  /\ fl.pc = "push" => criticalFlushMu = FlTask
  /\ \A k \in CriticalPushes : criticalFlushMu = k

\* the PushCritical of shutdown is in flight together with the push of a regular
\* flush that started before it
C40_Witness ==
  /\ ev.pc = "finalpush"
  /\ fl.pc = "push"
  /\ stopFlush

====
